---- MODULE Spec2Model ----
(***************************************************************************)
(* A model of spawnexec: the lifecycle of one Cmd (construction, stream    *)
(* plumbing, Start, the background copy goroutines, Wait, Run, Output),    *)
(* in its two build variants: the darwin variant built on posix_spawn and  *)
(* the non-darwin variant that delegates to os/exec.                       *)
(*                                                                         *)
(* The operating system (pipes, the child process, wait4, kill) and the    *)
(* Go scheduler are the environment: their steps are actions of their own. *)
(***************************************************************************)
EXTENDS Integers, Sequences, FiniteSets, TLC

\* ------------------------------------------------------------------ bounds
\* The most pipes the parent may have allocated; os.Pipe fails beyond it.
MaxPipes == 3
\* The longest byte sequence a caller-supplied reader holds.
MaxLen == 2
\* The bytes a kernel pipe buffers before a writer blocks.
PipeCap == 1
\* The environment makes a Start fail only while fewer than MaxStale copy
\* closures of earlier failed Starts are held in c.goroutine.
MaxStale == 1

\* The most entries the PATH environment variable holds.
MaxPath == 2

\* The largest capacity N of an output capture, the most bytes written to
\* one, and the most Write calls made on one.
MaxN == 2
MaxTotal == 6
MaxCalls == 4

\* The most elements a caller puts in c.Args.
MaxArgs == 2

\* Exit codes the child program may choose.
ExitCodes == {0, 255}

VARIABLES
  variant,         \* "primary" (darwin build) or "fallback" (!darwin build)
  lookPathErr,     \* c.lookPathErr # nil
  ctx,             \* c.ctx: "none" (nil), "live", "done"
  Cancel,          \* c.Cancel # nil: the caller supplied an abort hook
  Stdin, Stdout, Stderr,   \* the three stream bindings of the Cmd
  Process,         \* c.Process: [set, Pid]
  ProcessState,    \* c.ProcessState: [set, status]
  finished,        \* c.finished
  childIOFiles,    \* c.childIOFiles: pipe ends to close after the spawn
  parentIOPipes,   \* c.parentIOPipes: pipe ends to close in Wait
  goroutine,       \* c.goroutine: the registered copy closures
  goroutineErr,    \* c.goroutineErr: one outcome slot per closure
  goroutineMu,     \* c.goroutineMu: 0 free, i > 0 held by copy goroutine i
  stdinPipeUsed, stdoutPipeUsed, stderrPipeUsed,
  osCmd,           \* c.osCmd: the os/exec command of the fallback variant
  pipes,           \* the OS pipes: buffer and who holds each end open
  gstate,          \* scheduling state of each copy goroutine
  child,           \* the created process
  reader,          \* the caller's stdin bytes: [len, data], data the bytes handed out
  sinks,           \* what each caller-visible writer has received
  watch,           \* the cancellation watcher: "off", "armed", "fired"
  pc,              \* where the calling thread is: "idle", "reap", "collect",
                   \* or "panic" once a run-time panic has ended it
  call,            \* the API operation the calling thread is inside
  ret,             \* the result of the last API operation that returned
  hist,            \* history: processes created, reaps done, kill signals
                   \* sent by a watcher, calls of the Cancel hook, closes
                   \* Start issued on a descriptor it had closed already
  lp,              \* the executable lookup: the name, PATH, the file system,
                   \* and what LookPath / Command made of them
  psv,             \* a prefixSuffixSaver and the chunks written to it
  ws,              \* a raw wait status and what the ProcessState methods make of it
  launch,          \* c.Path, c.Args, c.Dir and c.Env: [Path, Args, Dir, Env]
  hasChdir,        \* the platform has the change-directory file action
  fa,              \* a list of file actions and the descriptor table of
                   \* the child they are applied to, by descriptor number
  other            \* a second thread of the caller, inside Wait

cmdVars == <<lookPathErr, launch, ctx, Cancel, Stdin, Stdout, Stderr, Process, ProcessState,
             finished, childIOFiles, parentIOPipes, goroutine, goroutineErr,
             goroutineMu, stdinPipeUsed, stdoutPipeUsed, stderrPipeUsed, osCmd>>
envVars == <<variant, pipes, gstate, child, reader, sinks, watch, lp, psv, ws,
             hasChdir, fa, other>>
vars == <<cmdVars, envVars, pc, call, ret, hist>>

\* ------------------------------------------------------------ stream values
\* A stream binding is [kind, ref]. Kinds: "nil"; "file" (an *os.File the
\* caller opened); "pr"/"pw" (the *os.File of the read/write end of pipe
\* ref); "reader" (a caller io.Reader that is no file); "bufA" (a caller
\* bytes.Buffer); "badW" (a caller io.Writer whose Write fails); "outBuf"
\* (the buffer Output and CombinedOutput create); "saver" (Output's
\* prefixSuffixSaver).
V(kind, ref) == [kind |-> kind, ref |-> ref]
Nil == V("nil", 0)

\* v.(*os.File) succeeds
IsFile(v) == v.kind \in {"file", "pr", "pw"}

Writers == {"bufA", "badW", "outBuf", "saver"}
\* What the caller has read from the handles StdoutPipe and StderrPipe returned.
Handles == {"rdOut", "rdErr"}

\* A freshly created pipe: both ends open in the parent, none in the child.
NewPipe == [buf |-> <<>>, rPar |-> TRUE, wPar |-> TRUE,
            rChild |-> FALSE, wChild |-> FALSE]

\* A read on the pipe returns end-of-input: nothing buffered, no write end open.
AtEOF(q) == q.buf = <<>> /\ ~q.wPar /\ ~q.wChild
\* A write on the pipe fails with EPIPE: no read end open anywhere.
Broken(q) == ~q.rPar /\ ~q.rChild

\* f.Close() on the parent's handle of one end of a pipe.
CloseEnd(ps, f) ==
  [ps EXCEPT ![f.ref] = IF f.kind = "pr" THEN [@ EXCEPT !.rPar = FALSE]
                        ELSE [@ EXCEPT !.wPar = FALSE]]

RECURSIVE CloseAll(_, _)
CloseAll(ps, files) ==
  IF files = <<>> THEN ps ELSE CloseAll(CloseEnd(ps, Head(files)), Tail(files))

NoProcess == [set |-> FALSE, Pid |-> 0]
NoState == [set |-> FALSE, status |-> 0]
NoChild == [state |-> "none", prog |-> [kind |-> "none", code |-> 0],
            fds |-> <<Nil, Nil, Nil>>, status |-> 0, hold |-> <<>>, eof |-> FALSE,
            argv |-> <<>>, dir |-> "", env |-> <<>>]
NoOsCmd == [set |-> FALSE, goroutine |-> <<>>, goroutineErr |-> <<>>,
            ProcessState |-> NoState, ctxErr |-> FALSE]
NoReader == [len |-> 0, data |-> <<>>]
\* A result: the operation, its error, the raw status of a returned
\* ExitError, the bytes Output / CombinedOutput return, and whether and with
\* what Output filled the ExitError's Stderr field.
NoRet == [op |-> "none", err |-> "nil", status |-> 0, out |-> <<>>,
          captured |-> FALSE, stderr |-> <<>>]
Ret(op, err) == [NoRet EXCEPT !.op = op, !.err = err]

\* ---------------------------------------------------------------- Init
\* The Cmd as Command / CommandContext return it: only Path, Args, ctx and
\* lookPathErr are set.
New(context) ==
  /\ variant \in {"primary", "fallback"}
  /\ lookPathErr \in BOOLEAN
  /\ ctx = context
  /\ Cancel \in (IF context = "none" THEN {FALSE} ELSE BOOLEAN)
  /\ Stdin = Nil /\ Stdout = Nil /\ Stderr = Nil
  /\ Process = NoProcess
  /\ ProcessState = NoState
  /\ finished = FALSE
  /\ childIOFiles = <<>> /\ parentIOPipes = <<>>
  /\ goroutine = <<>> /\ goroutineErr = <<>> /\ goroutineMu = 0
  /\ stdinPipeUsed = FALSE /\ stdoutPipeUsed = FALSE /\ stderrPipeUsed = FALSE
  /\ osCmd = NoOsCmd
  /\ pipes = <<>>
  /\ gstate = <<>>
  /\ child = NoChild
  /\ reader = NoReader
  /\ sinks = [w \in Writers \cup Handles |-> <<>>]
  /\ watch = "off"
  /\ pc = "idle"
  /\ call = "none"
  /\ ret = NoRet
  /\ hist = [spawns |-> 0, reaps |-> 0, kills |-> 0, hooks |-> 0, reclosed |-> 0]

\* No lookup is followed: the Cmd is taken as Command left it.
NoLookup == [given |-> FALSE]

\* No output capture is followed: the one Output makes is a plain sink.
NoSaver == [given |-> FALSE]

\* No status is decoded apart from the Cmd's own.
NoStatus == [given |-> FALSE]

\* Path and Args as Command("prog") leaves them when the lookup resolves
\* the name: Path is the resolved path, Args[0] the name.
\* Dir and Env are left unset: c.Dir is "" and c.Env is nil.
NoEnv == [set |-> FALSE, list |-> <<>>]
AsCommand == [Path |-> "/bin/prog", Args |-> <<"prog">>, Dir |-> "", Env |-> NoEnv]

\* No list of file actions is followed by descriptor number.
NoActions == [given |-> FALSE]

\* No second thread calls Wait.
NoOther == [pc |-> "off", err |-> "none"]

\* The platform of the darwin build is macOS 10.15 or later, and the Cmd has
\* one calling thread.
Usual == hasChdir = TRUE /\ fa = NoActions /\ other = NoOther

\* Nothing but the lifecycle of the Cmd is followed.
Plain == lp = NoLookup /\ psv = NoSaver /\ ws = NoStatus /\ launch = AsCommand /\ Usual

\* Command(name, arg...)
Init == New("none") /\ Plain
\* CommandContext(ctx, name, arg...) with a context not yet cancelled; the
\* caller may then set c.Cancel.
InitCtx == New("live") /\ Plain

\* Frames: what an operation of the calling thread leaves alone.
streams == <<Stdin, Stdout, Stderr>>
usedFlags == <<stdinPipeUsed, stdoutPipeUsed, stderrPipeUsed>>
fixed == <<variant, lookPathErr, launch, Cancel, lp, psv, ws, hasChdir, fa, other>>

\* ------------------------------------------------- direct stream assignment
\* The caller sets c.Stdin to an open file or to a reader holding n bytes
\* (their values show when they are read).
AssignStdin ==
  /\ pc = "idle" /\ ~Process.set
  /\ Stdin = Nil /\ ~stdinPipeUsed
  /\ \/ Stdin' = V("file", 0) /\ UNCHANGED reader
     \/ \E n \in 0..MaxLen :
          /\ Stdin' = V("reader", 0)
          /\ reader' = [len |-> n, data |-> <<>>]
  /\ UNCHANGED <<fixed, ctx, Stdout, Stderr, Process, ProcessState, finished,
                 childIOFiles, parentIOPipes, goroutine, goroutineErr, goroutineMu,
                 usedFlags, osCmd, pipes, gstate, child, sinks, watch, pc, call,
                 ret, hist>>

\* The caller sets c.Stdout to an open file or to a writer.
AssignStdout ==
  /\ pc = "idle" /\ ~Process.set
  /\ Stdout = Nil /\ ~stdoutPipeUsed
  /\ \E k \in {"file", "bufA", "badW"} : Stdout' = V(k, 0)
  /\ UNCHANGED <<fixed, ctx, Stdin, Stderr, Process, ProcessState, finished,
                 childIOFiles, parentIOPipes, goroutine, goroutineErr, goroutineMu,
                 usedFlags, osCmd, pipes, gstate, child, reader, sinks, watch, pc,
                 call, ret, hist>>

\* The caller sets c.Stderr to an open file or to a writer.
AssignStderr ==
  /\ pc = "idle" /\ ~Process.set
  /\ Stderr = Nil /\ ~stderrPipeUsed
  /\ \E k \in {"file", "bufA"} : Stderr' = V(k, 0)
  /\ UNCHANGED <<fixed, ctx, Stdin, Stdout, Process, ProcessState, finished,
                 childIOFiles, parentIOPipes, goroutine, goroutineErr, goroutineMu,
                 usedFlags, osCmd, pipes, gstate, child, reader, sinks, watch, pc,
                 call, ret, hist>>

\* ------------------------------------------------------------ pipe accessors
\* An accessor that does not look at c.Process.
PipeGuardNoProcessCheck(v, used) ==
  IF v # Nil THEN "misuse"
  ELSE IF used THEN "misuse"
  ELSE "nil"

\* The checks StdinPipe / StdoutPipe / StderrPipe make before allocating:
\* the error they return, or "nil" when the accessor goes on.
PipeGuard(v, used) ==
  IF v # Nil THEN "misuse"
  ELSE IF Process.set THEN "misuse"
  ELSE IF used THEN "misuse"
  ELSE "nil"

\* os.Pipe(): succeeds (ok) unless the descriptor table is exhausted.
PipeOK(ps, ok) == ok /\ Len(ps) < MaxPipes

cmdRest == <<fixed, ctx, Process, ProcessState, finished, goroutine, goroutineErr,
             goroutineMu, osCmd, gstate, child, sinks, watch, pc, call, hist>>

StdinPipe ==
  /\ pc = "idle"
  /\ LET g == PipeGuard(Stdin, stdinPipeUsed) IN
     IF g # "nil"
     THEN /\ ret' = Ret("StdinPipe", g)
          /\ UNCHANGED <<streams, usedFlags, childIOFiles, parentIOPipes, pipes, reader>>
     ELSE /\ stdinPipeUsed' = TRUE
          /\ \E ok \in BOOLEAN :
               IF PipeOK(pipes, ok)
               THEN LET p == Len(pipes) + 1 IN
                    /\ pipes' = Append(pipes, NewPipe)
                    /\ Stdin' = V("pr", p)
                    /\ childIOFiles' = Append(childIOFiles, V("pr", p))
                    /\ parentIOPipes' = Append(parentIOPipes, V("pw", p))
                    /\ reader' = [len |-> MaxLen, data |-> <<>>]
                    /\ ret' = Ret("StdinPipe", "nil")
               ELSE /\ ret' = Ret("StdinPipe", "oserr")
                    /\ UNCHANGED <<Stdin, childIOFiles, parentIOPipes, pipes, reader>>
          /\ UNCHANGED <<Stdout, Stderr, stdoutPipeUsed, stderrPipeUsed>>
  /\ UNCHANGED cmdRest

StdoutPipe ==
  /\ pc = "idle"
  /\ LET g == PipeGuard(Stdout, stdoutPipeUsed) IN
     IF g # "nil"
     THEN /\ ret' = Ret("StdoutPipe", g)
          /\ UNCHANGED <<streams, usedFlags, childIOFiles, parentIOPipes, pipes>>
     ELSE /\ stdoutPipeUsed' = TRUE
          /\ \E ok \in BOOLEAN :
               IF PipeOK(pipes, ok)
               THEN LET p == Len(pipes) + 1 IN
                    /\ pipes' = Append(pipes, NewPipe)
                    /\ Stdout' = V("pw", p)
                    /\ childIOFiles' = Append(childIOFiles, V("pw", p))
                    /\ parentIOPipes' = Append(parentIOPipes, V("pr", p))
                    /\ ret' = Ret("StdoutPipe", "nil")
               ELSE /\ ret' = Ret("StdoutPipe", "oserr")
                    /\ UNCHANGED <<Stdout, childIOFiles, parentIOPipes, pipes>>
          /\ UNCHANGED <<Stdin, Stderr, stdinPipeUsed, stderrPipeUsed>>
  /\ UNCHANGED <<cmdRest, reader>>

StderrPipe ==
  /\ pc = "idle"
  /\ LET g == PipeGuard(Stderr, stderrPipeUsed) IN
     IF g # "nil"
     THEN /\ ret' = Ret("StderrPipe", g)
          /\ UNCHANGED <<streams, usedFlags, childIOFiles, parentIOPipes, pipes>>
     ELSE /\ stderrPipeUsed' = TRUE
          /\ \E ok \in BOOLEAN :
               IF PipeOK(pipes, ok)
               THEN LET p == Len(pipes) + 1 IN
                    /\ pipes' = Append(pipes, NewPipe)
                    /\ Stderr' = V("pw", p)
                    /\ childIOFiles' = Append(childIOFiles, V("pw", p))
                    /\ parentIOPipes' = Append(parentIOPipes, V("pr", p))
                    /\ ret' = Ret("StderrPipe", "nil")
               ELSE /\ ret' = Ret("StderrPipe", "oserr")
                    /\ UNCHANGED <<Stderr, childIOFiles, parentIOPipes, pipes>>
          /\ UNCHANGED <<Stdin, Stdout, stdinPipeUsed, stdoutPipeUsed>>
  /\ UNCHANGED <<cmdRest, reader>>

\* --------------------------------------------------------------------- Start
\* A Start that does not look at c.Process.
StartGuardNoProcessCheck ==
  IF lookPathErr THEN "lookpath"
  ELSE IF finished THEN "misuse"
  ELSE IF ctx = "done" THEN "ctx"
  ELSE "nil"

\* A Start that does not look at c.lookPathErr.
StartGuardNoLookPathCheck ==
  IF Process.set THEN "misuse"
  ELSE IF finished THEN "misuse"
  ELSE IF ctx = "done" THEN "ctx"
  ELSE "nil"

\* A Start that does not look at the context.
StartGuardNoCtxCheck ==
  IF lookPathErr THEN "lookpath"
  ELSE IF Process.set THEN "misuse"
  ELSE IF finished THEN "misuse"
  ELSE "nil"

\* The checks both variants of Start make before building anything: the
\* error Start returns, or "nil" when it goes on.
StartGuard ==
  IF lookPathErr THEN "lookpath"
  ELSE IF Process.set THEN "misuse"
  ELSE IF finished THEN "misuse"
  ELSE IF ctx = "done" THEN "ctx"
  ELSE "nil"

\* The places where the environment may make a Start fail.
FailPoints == {"none", "stdin.pipe", "stdin.action", "stdout.pipe", "stdout.action",
               "stderr.pipe", "stderr.action", "attr", "spawn"}

\* What the child program does: exit at once with a code; copy its standard
\* input to its standard output until end-of-input (cat); or write one byte
\* to its standard output, then one to its standard error, and exit with a
\* code (emit).
Progs == [kind : {"exit", "emit"}, code : ExitCodes] \cup {[kind |-> "cat", code |-> 0]}

\* The writes emit makes, in order: the descriptor and the byte.
EmitScript == <<[fd |-> 1, b |-> 1], [fd |-> 2, b |-> 2]>>

\* The working record of one Start call.
StartRec(ps, files, gs) ==
  [pipes |-> ps, childIOFiles |-> files, goroutine |-> gs, fileActions |-> <<>>,
   closeAfterSpawn |-> <<>>, err |-> FALSE]

OpenNull(fd) == [op |-> "open", src |-> V("null", 0), fd |-> fd]
Dup2(src, fd) == [op |-> "dup2", src |-> src, fd |-> fd]

setupStdin(S, sin, fail) ==
  IF sin.kind = "nil" THEN
    IF fail = "stdin.action" THEN [S EXCEPT !.err = TRUE]
    ELSE [S EXCEPT !.fileActions = Append(@, OpenNull(0))]
  ELSE IF IsFile(sin) THEN
    IF fail = "stdin.action" THEN [S EXCEPT !.err = TRUE]
    ELSE [S EXCEPT !.fileActions = Append(@, Dup2(sin, 0))]
  ELSE IF ~PipeOK(S.pipes, fail # "stdin.pipe") THEN [S EXCEPT !.err = TRUE]
  ELSE LET p == Len(S.pipes) + 1 IN
    IF fail = "stdin.action"
    THEN [S EXCEPT !.err = TRUE]   \* pr.Close(); pw.Close(): the pipe is gone
    ELSE [S EXCEPT !.pipes = Append(@, NewPipe),
                   !.fileActions = Append(@, Dup2(V("pr", p), 0)),
                   !.childIOFiles = Append(@, V("pr", p)),
                   !.goroutine = Append(@, [stream |-> "stdin", p |-> p]),
                   !.closeAfterSpawn = Append(@, V("pr", p))]

setupStdout(S, sout, fail) ==
  IF sout.kind = "nil" THEN
    IF fail = "stdout.action" THEN [S EXCEPT !.err = TRUE]
    ELSE [S EXCEPT !.fileActions = Append(@, OpenNull(1))]
  ELSE IF IsFile(sout) THEN
    IF fail = "stdout.action" THEN [S EXCEPT !.err = TRUE]
    ELSE [S EXCEPT !.fileActions = Append(@, Dup2(sout, 1))]
  ELSE IF ~PipeOK(S.pipes, fail # "stdout.pipe") THEN [S EXCEPT !.err = TRUE]
  ELSE LET p == Len(S.pipes) + 1 IN
    IF fail = "stdout.action"
    THEN [S EXCEPT !.err = TRUE]   \* pr.Close(); pw.Close(): the pipe is gone
    ELSE [S EXCEPT !.pipes = Append(@, NewPipe),
                   !.fileActions = Append(@, Dup2(V("pw", p), 1)),
                   !.childIOFiles = Append(@, V("pw", p)),
                   !.goroutine = Append(@, [stream |-> "stdout", p |-> p]),
                   !.closeAfterSpawn = Append(@, V("pw", p))]

\* A setupStderr that does not look whether Stderr is the writer Stdout is.
setupStderrNoSharing(S, sout, serr, fail) ==
  IF serr.kind = "nil" THEN
    IF fail = "stderr.action" THEN [S EXCEPT !.err = TRUE]
    ELSE [S EXCEPT !.fileActions = Append(@, OpenNull(2))]
  ELSE IF IsFile(serr) THEN
    IF fail = "stderr.action" THEN [S EXCEPT !.err = TRUE]
    ELSE [S EXCEPT !.fileActions = Append(@, Dup2(serr, 2))]
  ELSE IF ~PipeOK(S.pipes, fail # "stderr.pipe") THEN [S EXCEPT !.err = TRUE]
  ELSE LET p == Len(S.pipes) + 1 IN
    IF fail = "stderr.action"
    THEN [S EXCEPT !.err = TRUE]
    ELSE [S EXCEPT !.pipes = Append(@, NewPipe),
                   !.fileActions = Append(@, Dup2(V("pw", p), 2)),
                   !.childIOFiles = Append(@, V("pw", p)),
                   !.goroutine = Append(@, [stream |-> "stderr", p |-> p]),
                   !.closeAfterSpawn = Append(@, V("pw", p))]

setupStderr(S, sout, serr, fail) ==
  IF serr.kind = "nil" THEN
    IF fail = "stderr.action" THEN [S EXCEPT !.err = TRUE]
    ELSE [S EXCEPT !.fileActions = Append(@, OpenNull(2))]
  ELSE IF serr = sout THEN
    IF fail = "stderr.action" THEN [S EXCEPT !.err = TRUE]
    ELSE [S EXCEPT !.fileActions = Append(@, Dup2(V("fd", 1), 2))]
  ELSE IF IsFile(serr) THEN
    IF fail = "stderr.action" THEN [S EXCEPT !.err = TRUE]
    ELSE [S EXCEPT !.fileActions = Append(@, Dup2(serr, 2))]
  ELSE IF ~PipeOK(S.pipes, fail # "stderr.pipe") THEN [S EXCEPT !.err = TRUE]
  ELSE LET p == Len(S.pipes) + 1 IN
    IF fail = "stderr.action"
    THEN [S EXCEPT !.err = TRUE]   \* pr.Close(); pw.Close(): the pipe is gone
    ELSE [S EXCEPT !.pipes = Append(@, NewPipe),
                   !.fileActions = Append(@, Dup2(V("pw", p), 2)),
                   !.childIOFiles = Append(@, V("pw", p)),
                   !.goroutine = Append(@, [stream |-> "stderr", p |-> p]),
                   !.closeAfterSpawn = Append(@, V("pw", p))]

\* The three stream setups in Start's order, stopping at the first failure,
\* then the attribute setup and the creation primitive.
Setup(S0, sin, sout, serr, fail) ==
  LET S1 == setupStdin(S0, sin, fail)
      S2 == IF S1.err THEN S1 ELSE setupStdout(S1, sout, fail)
      S3 == IF S2.err THEN S2 ELSE setupStderr(S2, sout, serr, fail)
  IN IF ~S3.err /\ fail \in {"attr", "spawn"} THEN [S3 EXCEPT !.err = TRUE] ELSE S3

\* posix_spawn applies the file actions in list order to the child's
\* descriptor table; descriptors 0..2 are kept, every other one is closed
\* (POSIX_SPAWN_CLOEXEC_DEFAULT).
RECURSIVE ApplyActions(_, _)
ApplyActions(fds, acts) ==
  IF acts = <<>> THEN fds
  ELSE LET a == Head(acts)
           t == IF a.src.kind = "fd" THEN fds[a.src.ref + 1] ELSE a.src
       IN ApplyActions([fds EXCEPT ![a.fd + 1] = t], Tail(acts))

Inherited == <<V("parent", 0), V("parent", 1), V("parent", 2)>>

\* The pipes once a child created without close-on-exec holds every end
\* that is open in the parent.
ChildHoldsInherited(ps, fds) ==
  [p \in 1..Len(ps) |->
     [ps[p] EXCEPT !.rChild = ps[p].rPar, !.wChild = ps[p].wPar]]

\* The pipes once the child holds the ends its descriptors 0..2 refer to.
ChildHolds(ps, fds) ==
  [p \in 1..Len(ps) |->
     [ps[p] EXCEPT !.rChild = \E i \in 1..3 : fds[i] = V("pr", p),
                   !.wChild = \E i \in 1..3 : fds[i] = V("pw", p)]]

\* The writes of emit that go to a pipe; what it writes to the null device,
\* to a file of the caller or to an inherited descriptor is not followed.
EmitWrites(fds) == SelectSeq(EmitScript, LAMBDA w : fds[w.fd + 1].kind = "pw")

\* The argument vector Start of the darwin variant hands to posix_spawn:
\* c.Args, or {c.Path} when c.Args is empty.
SpawnArgs == IF Len(launch.Args) = 0 THEN <<launch.Path>> ELSE launch.Args

\* The argument vector of the exec.Cmd that Start of the !darwin variant
\* makes with exec.Command(c.Path, c.Args[1:]...): the name it is given,
\* followed by the arguments it is given. The slice expression c.Args[1:]
\* panics when c.Args is empty.
SliceFrom1Panics == Len(launch.Args) = 0
OsCmdArgs == <<launch.Path>> \o Tail(launch.Args)

Argv == IF variant = "primary" THEN SpawnArgs ELSE OsCmdArgs

\* An entry "key=value" of an environment.
Entry(k, v) == [k |-> k, v |-> v]

\* os.Environ(): the environment of the parent.
Environ == <<Entry("HOME", 0), Entry("A", 0)>>

\* The environment vector Start of the darwin variant hands to posix_spawn:
\* c.Env as it is, or the parent's environment when c.Env is nil.
SpawnEnv == IF launch.Env.set THEN launch.Env.list ELSE Environ

\* os/exec keeps, of the entries with one key, the last.
RECURSIVE dedupEnv(_)
dedupEnv(env) ==
  IF env = <<>> THEN <<>>
  ELSE LET h == Head(env)
           t == Tail(env)
       IN IF \E j \in 1..Len(t) : t[j].k = h.k THEN dedupEnv(t)
          ELSE <<h>> \o dedupEnv(t)

\* The environment vector of the exec.Cmd that Start of the !darwin variant
\* gives c.Env to (osCmd.Env = c.Env).
OsCmdEnv == dedupEnv(IF launch.Env.set THEN launch.Env.list ELSE Environ)

Envp == IF variant = "primary" THEN SpawnEnv ELSE OsCmdEnv

\* A Start that goes on whatever the platform offers.
DirNeverRefused == FALSE

\* Start of the darwin variant gives up when c.Dir is set and the platform
\* has no change-directory file action (add_chdir_action, which would
\* return ENOSYS there, is then never called).
DirRefused == launch.Dir # "" /\ ~hasChdir

\* The directory the created process runs in ("" is the parent's): c.Dir
\* when the darwin variant added the change-directory action, or when
\* os/exec was given it (osCmd.Dir = c.Dir).
ChildDir ==
  IF launch.Dir # "" /\ (variant = "fallback" \/ hasChdir) THEN launch.Dir ELSE ""

NewChild(prog, fds) ==
  [state |-> "running", prog |-> prog, fds |-> fds, status |-> 0,
   hold |-> IF prog.kind = "emit" THEN EmitWrites(fds) ELSE <<>>, eof |-> FALSE,
   argv |-> Argv, dir |-> ChildDir, env |-> Envp]

\* What follows a successful Start on the calling thread: for Start, the
\* return; for Run, Output and CombinedOutput, the call of Wait, whose
\* checks pass (Process was just set, finished is false) and which marks
\* the Cmd finished and goes on to reap.
AfterStart(op, thenWait) ==
  IF thenWait
  THEN /\ finished' = TRUE /\ pc' = "reap" /\ call' = op /\ ret' = NoRet
  ELSE /\ ret' = Ret(op, "nil") /\ UNCHANGED <<finished, pc, call>>

\* The closes Start of the darwin variant issues after the spawn, in order:
\* unix.Close(fd) for every number in closeAfterSpawn, then f.Close() for
\* every file in c.childIOFiles (an *os.File whose descriptor was closed by
\* number still holds that number, and closes it again).
CloseCalls(S) == S.closeAfterSpawn \o S.childIOFiles

\* How many of the calls are made on a descriptor an earlier call closed.
Reclosed(calls) ==
  Cardinality({j \in 1..Len(calls) : \E i \in 1..(j - 1) : calls[i] = calls[j]})

\* Start of the darwin variant, on stream bindings sin, sout, serr.
StartPrimary(sin, sout, serr, fail, prog, op, thenWait) ==
  LET S0 == Setup(StartRec(pipes, childIOFiles, goroutine), sin, sout, serr, fail)
      refused == ~S0.err /\ DirRefused
      S == IF refused THEN [S0 EXCEPT !.err = TRUE] ELSE S0
  IN
  IF S.err
  THEN /\ pipes' = S.pipes
       /\ childIOFiles' = S.childIOFiles
       /\ goroutine' = S.goroutine
       /\ ret' = Ret(op, IF refused THEN "dir" ELSE "start")
       /\ UNCHANGED <<Process, goroutineErr, gstate, child, watch, hist, finished,
                      pc, call, osCmd>>
  ELSE LET fds == ApplyActions(Inherited, S.fileActions) IN
       /\ pipes' = CloseAll(CloseAll(ChildHolds(S.pipes, fds), S.closeAfterSpawn),
                            S.childIOFiles)
       /\ childIOFiles' = <<>>
       /\ Process' = [set |-> TRUE, Pid |-> 1]
       /\ goroutine' = S.goroutine
       /\ goroutineErr' = [i \in 1..Len(S.goroutine) |-> "nil"]
       /\ gstate' = [i \in 1..Len(S.goroutine) |-> "spawned"]
       /\ child' = NewChild(prog, fds)
       /\ watch' = IF ctx # "none" THEN "armed" ELSE "off"
       /\ hist' = [hist EXCEPT !.spawns = @ + 1,
                               !.reclosed = @ + Reclosed(CloseCalls(S))]
       /\ AfterStart(op, thenWait)
       /\ UNCHANGED osCmd

\* Start of the !darwin variant: a fresh exec.Cmd is given the Cmd's fields
\* and started. os/exec classifies each stream the way the darwin variant
\* does, creates its own pipes and copy goroutines, closes the child-side
\* ends of its own pipes after the fork, and on failure closes all it opened.
StartFallback(sin, sout, serr, fail, prog, op, thenWait) ==
  LET S == Setup(StartRec(pipes, <<>>, <<>>), sin, sout, serr, fail) IN
  IF S.err
  THEN /\ ret' = Ret(op, "start")
       /\ UNCHANGED <<pipes, Process, gstate, child, watch, hist, finished,
                      pc, call, osCmd, childIOFiles, goroutine, goroutineErr>>
  ELSE LET fds == ApplyActions(Inherited, S.fileActions) IN
       /\ pipes' = CloseAll(ChildHolds(S.pipes, fds), S.childIOFiles)
       /\ Process' = [set |-> TRUE, Pid |-> 1]
       /\ osCmd' = [NoOsCmd EXCEPT !.set = TRUE, !.goroutine = S.goroutine,
                      !.goroutineErr = [i \in 1..Len(S.goroutine) |-> "nil"]]
       /\ gstate' = [i \in 1..Len(S.goroutine) |-> "running"]
       /\ child' = NewChild(prog, fds)
       /\ watch' = IF ctx # "none" THEN "armed" ELSE "off"
       /\ hist' = [hist EXCEPT !.spawns = @ + 1]
       /\ AfterStart(op, thenWait)
       /\ UNCHANGED <<childIOFiles, goroutine, goroutineErr>>

\* Start on the stream bindings sin, sout, serr (the caller of StartOp
\* states what becomes of Stdin, Stdout and Stderr themselves).
StartOp(sin, sout, serr, op, thenWait) ==
  /\ LET g == StartGuard IN
     IF g # "nil"
     THEN /\ ret' = Ret(op, g)
          /\ UNCHANGED <<Process, finished, childIOFiles, goroutine, goroutineErr,
                         osCmd, pipes, gstate, child, watch, pc, call, hist>>
     ELSE IF variant = "fallback" /\ SliceFrom1Panics
     THEN /\ pc' = "panic"
          /\ UNCHANGED <<Process, finished, childIOFiles, goroutine, goroutineErr,
                         osCmd, pipes, gstate, child, watch, call, ret, hist>>
     ELSE \E fail \in FailPoints, prog \in Progs :
            /\ fail # "none" => Len(goroutine) < MaxStale
            /\ IF variant = "primary"
               THEN StartPrimary(sin, sout, serr, fail, prog, op, thenWait)
               ELSE StartFallback(sin, sout, serr, fail, prog, op, thenWait)
  /\ UNCHANGED <<fixed, ctx, ProcessState, parentIOPipes, goroutineMu, usedFlags,
                 reader, sinks>>

Start ==
  /\ pc = "idle"
  /\ StartOp(Stdin, Stdout, Stderr, "Start", FALSE)
  /\ UNCHANGED streams

\* Run, Output and CombinedOutput are Start followed by Wait. The caller
\* uses them on a Cmd it has not started; a start repeated on a started Cmd
\* is the action Start, whose checks are the ones these three go through.
Run ==
  /\ pc = "idle" /\ ~Process.set
  /\ StartOp(Stdin, Stdout, Stderr, "Run", TRUE)
  /\ UNCHANGED streams

\* ------------------------------------------------- Output, CombinedOutput
\* The checks Output and CombinedOutput make on entry: the error returned
\* at once, or "nil" when the call goes on to bind its buffers and run.
OutputGuard == IF Stdout # Nil THEN "misuse" ELSE "nil"

\* A CombinedOutput that does not look at c.Stderr.
CombinedOutputGuardNoStderrCheck == IF Stdout # Nil THEN "misuse" ELSE "nil"

CombinedOutputGuard ==
  IF Stdout # Nil THEN "misuse"
  ELSE IF Stderr # Nil THEN "misuse"
  ELSE "nil"

Output ==
  /\ pc = "idle" /\ ~Process.set
  /\ IF OutputGuard # "nil"
     THEN /\ ret' = Ret("Output", "misuse")
          /\ UNCHANGED <<cmdVars, envVars, pc, call, hist>>
     ELSE LET so == V("outBuf", 0)
              se == IF Stderr = Nil THEN V("saver", 0) ELSE Stderr
          IN /\ Stdout' = so /\ Stderr' = se /\ UNCHANGED Stdin
             /\ StartOp(Stdin, so, se, "Output", TRUE)

CombinedOutput ==
  /\ pc = "idle" /\ ~Process.set
  /\ IF CombinedOutputGuard # "nil"
     THEN /\ ret' = Ret("CombinedOutput", "misuse")
          /\ UNCHANGED <<cmdVars, envVars, pc, call, hist>>
     ELSE LET b == V("outBuf", 0)
          IN /\ Stdout' = b /\ Stderr' = b /\ UNCHANGED Stdin
             /\ StartOp(Stdin, b, b, "CombinedOutput", TRUE)

\* ------------------------------------------------------ the copy goroutines
\* The copy tasks of the running command: the Cmd's own in the darwin
\* variant, those of the exec.Cmd in the other.
Tasks == IF variant = "primary" THEN goroutine ELSE osCmd.goroutine

\* The writer a stdout / stderr copy task delivers to.
SinkOf(t) == IF t.stream = "stdout" THEN Stdout.kind ELSE Stderr.kind

\* startGoroutines: goroutine i begins by taking the Cmd's mutex, and holds
\* it for the whole of its copy.
GoroutineLock(i) ==
  /\ variant = "primary"
  /\ i \in DOMAIN gstate /\ gstate[i] = "spawned"
  /\ goroutineMu = 0
  /\ goroutineMu' = i
  /\ gstate' = [gstate EXCEPT ![i] = "running"]
  /\ UNCHANGED <<fixed, ctx, streams, Process, ProcessState, finished, childIOFiles,
                 parentIOPipes, goroutine, goroutineErr, usedFlags, osCmd, pipes,
                 child, reader, sinks, watch, pc, call, ret, hist>>

\* io.Copy moves one byte: from the reader into the stdin pipe, or from a
\* stdout / stderr pipe into its writer.
CopyMove(i) ==
  /\ i \in DOMAIN gstate /\ gstate[i] = "running"
  /\ LET t == Tasks[i]
         q == pipes[t.p]
     IN IF t.stream = "stdin"
        THEN /\ Len(reader.data) < reader.len /\ ~Broken(q) /\ Len(q.buf) < PipeCap
             /\ LET b == Len(reader.data) + 1 IN
                  /\ pipes' = [pipes EXCEPT ![t.p].buf = Append(@, b)]
                  /\ reader' = [reader EXCEPT !.data = Append(@, b)]
             /\ UNCHANGED sinks
        ELSE /\ q.buf # <<>> /\ SinkOf(t) \in Writers \ {"badW"}
             /\ pipes' = [pipes EXCEPT ![t.p].buf = Tail(@)]
             /\ sinks' = [sinks EXCEPT ![SinkOf(t)] = Append(@, Head(q.buf))]
             /\ UNCHANGED reader
  /\ UNCHANGED <<fixed, ctx, streams, Process, ProcessState, finished, childIOFiles,
                 parentIOPipes, goroutine, goroutineErr, goroutineMu, usedFlags,
                 osCmd, gstate, child, watch, pc, call, ret, hist>>

\* The outcome a copy closure returns when its io.Copy ends, or "going"
\* while io.Copy has not ended. The stdin copy ends at the end of the reader
\* (nil) or on a write to a pipe nobody reads (EPIPE, which os/exec
\* ignores); an output copy ends at end-of-input (nil) or when the writer
\* refuses a byte.
CopyOutcome(t, q) ==
  IF t.stream = "stdin"
  THEN IF Len(reader.data) = reader.len THEN "nil"
       ELSE IF Broken(q) THEN (IF variant = "primary" THEN "err" ELSE "nil")
       ELSE "going"
  ELSE IF q.buf # <<>> THEN (IF SinkOf(t) \in Writers \ {"badW"} THEN "going" ELSE "err")
       ELSE IF AtEOF(q) THEN "nil"
       ELSE "going"

\* The copy closure of goroutine i returns: it closes its own end of the
\* pipe, its outcome is stored in slot i, and (darwin) the mutex is released.
CopyFinish(i) ==
  /\ i \in DOMAIN gstate /\ gstate[i] = "running"
  /\ LET t == Tasks[i]
         res == CopyOutcome(t, pipes[t.p])
     IN /\ res # "going"
        /\ pipes' = CloseEnd(pipes, V(IF t.stream = "stdin" THEN "pw" ELSE "pr", t.p))
        /\ IF variant = "primary"
           THEN /\ goroutineErr' = [goroutineErr EXCEPT ![i] = res]
                /\ goroutineMu' = 0
                /\ UNCHANGED osCmd
           ELSE /\ osCmd' = [osCmd EXCEPT !.goroutineErr[i] = res]
                /\ UNCHANGED <<goroutineErr, goroutineMu>>
  /\ gstate' = [gstate EXCEPT ![i] = "done"]
  /\ UNCHANGED <<fixed, ctx, streams, Process, ProcessState, finished, childIOFiles,
                 parentIOPipes, goroutine, usedFlags, child, reader, sinks, watch,
                 pc, call, ret, hist>>

\* ----------------------------------------------------------- the child
\* The raw wait status of a normal exit with `code`, and of a death by
\* signal `sig` (the encoding wait4 reports).
ExitedWith(code) == code * 256
KilledBy(sig) == sig

\* The process ends with raw status st: its descriptors are closed and it
\* stays a zombie until it is reaped.
ChildEnds(st) ==
  /\ child' = [child EXCEPT !.state = "zombie", !.status = st]
  /\ pipes' = [p \in 1..Len(pipes) |->
                 [pipes[p] EXCEPT !.rChild = FALSE, !.wChild = FALSE]]

childFrame == <<fixed, ctx, streams, Process, ProcessState, finished, childIOFiles,
                parentIOPipes, goroutine, goroutineErr, goroutineMu, usedFlags,
                osCmd, gstate, reader, sinks, watch, pc, call, ret, hist>>

\* A program that calls exit(code) without touching its streams.
ChildExit ==
  /\ child.state = "running" /\ child.prog.kind = "exit"
  /\ ChildEnds(ExitedWith(child.prog.code))
  /\ UNCHANGED childFrame

\* cat reads one byte from descriptor 0, or sees end-of-input there.
ChildRead ==
  /\ child.state = "running" /\ child.prog.kind = "cat"
  /\ child.hold = <<>> /\ ~child.eof
  /\ LET f == child.fds[1] IN
     IF f.kind = "pr"
     THEN LET q == pipes[f.ref] IN
          IF q.buf # <<>>
          THEN /\ child' = [child EXCEPT !.hold = <<Head(q.buf)>>]
               /\ pipes' = [pipes EXCEPT ![f.ref].buf = Tail(@)]
          ELSE /\ AtEOF(q)
               /\ child' = [child EXCEPT !.eof = TRUE]
               /\ UNCHANGED pipes
     ELSE /\ child' = [child EXCEPT !.eof = TRUE]
          /\ UNCHANGED pipes
  /\ UNCHANGED childFrame

\* cat writes the byte it holds to descriptor 1; writing to a pipe nobody
\* reads kills it with SIGPIPE.
ChildWrite ==
  /\ child.state = "running" /\ child.prog.kind = "cat"
  /\ child.hold # <<>>
  /\ LET f == child.fds[2] IN
     IF f.kind = "pw"
     THEN LET q == pipes[f.ref] IN
          IF Broken(q)
          THEN ChildEnds(KilledBy(13))
          ELSE /\ Len(q.buf) < PipeCap
               /\ child' = [child EXCEPT !.hold = <<>>]
               /\ pipes' = [pipes EXCEPT ![f.ref].buf = Append(@, Head(child.hold))]
     ELSE /\ child' = [child EXCEPT !.hold = <<>>]
          /\ UNCHANGED pipes
  /\ UNCHANGED childFrame

\* cat exits 0 after end-of-input, once everything read is written.
ChildCatExit ==
  /\ child.state = "running" /\ child.prog.kind = "cat"
  /\ child.eof /\ child.hold = <<>>
  /\ ChildEnds(ExitedWith(0))
  /\ UNCHANGED childFrame

\* emit makes its next write to a pipe; writing to a pipe nobody reads
\* kills it with SIGPIPE.
ChildEmit ==
  /\ child.state = "running" /\ child.prog.kind = "emit"
  /\ child.hold # <<>>
  /\ LET w == Head(child.hold)
         q == pipes[child.fds[w.fd + 1].ref]
     IN IF Broken(q)
        THEN ChildEnds(KilledBy(13))
        ELSE /\ Len(q.buf) < PipeCap
             /\ child' = [child EXCEPT !.hold = Tail(@)]
             /\ pipes' = [pipes EXCEPT ![child.fds[w.fd + 1].ref].buf = Append(@, w.b)]
  /\ UNCHANGED childFrame

\* emit exits with its code once it has made all its writes.
ChildEmitExit ==
  /\ child.state = "running" /\ child.prog.kind = "emit"
  /\ child.hold = <<>>
  /\ ChildEnds(ExitedWith(child.prog.code))
  /\ UNCHANGED childFrame

\* ------------------------------------------------------ ProcessState decoding
\* unix.WaitStatus: Exited, ExitStatus.
Exited(st) == st % 128 = 0
ExitStatus(st) == IF Exited(st) THEN (st \div 256) % 256 ELSE -1
\* An ExitCode that does not look at Exited.
ExitCodeNoExitedCheck(st) == (st \div 256) % 256
\* A Success that takes every normal exit for a success.
SuccessAnyExit(st) == Exited(st)
\* ProcessState.Success, ProcessState.ExitCode
Success(st) == ExitStatus(st) = 0
ExitCode(st) == IF ~Exited(st) THEN -1 ELSE ExitStatus(st)

\* unix.WaitStatus: Signaled, Signal, CoreDump; Stopped, Continued and
\* StopSignal as the platform of the variant defines them (the darwin build
\* tells a continued process from a stopped one by the stop signal being
\* SIGSTOP, 17; the other build has one status value, 0xFFFF, for it).
Signaled(st) == st % 128 # 127 /\ st % 128 # 0
Signal(st) == IF Signaled(st) THEN st % 128 ELSE -1
CoreDump(st) == Signaled(st) /\ (st \div 128) % 2 = 1
Stopped(v, st) ==
  IF v = "primary" THEN st % 128 = 127 /\ st \div 256 # 17 ELSE st % 256 = 127
Continued(v, st) ==
  IF v = "primary" THEN st % 128 = 127 /\ st \div 256 = 17 ELSE st = 65535
StopSignal(v, st) == IF Stopped(v, st) THEN (st \div 256) % 256 ELSE -1

\* A text of ProcessState.String: its fixed wording, the number or signal
\* it carries, and whether " (core dumped)" is added.
Text(shape, n, core) == [shape |-> shape, n |-> n, core |-> core]
Shapes == {"exit status", "signal", "stop signal", "continued"}

\* ProcessState.String
String(v, st) ==
  IF Exited(st) THEN Text("exit status", ExitStatus(st), FALSE)
  ELSE IF Signaled(st) THEN Text("signal", Signal(st), CoreDump(st))
  ELSE IF Stopped(v, st) THEN Text("stop signal", StopSignal(v, st), FALSE)
  ELSE IF Continued(v, st) THEN Text("continued", 0, FALSE)
  ELSE Text("unknown status", st, FALSE)

\* ExitError.Error
Error(v, st) == String(v, st)

\* What a process may have done by the time wait4 (called with no options)
\* reports it: exited with an 8-bit code, or been ended by a signal, with
\* or without a core dump; and the raw status wait4 reports for each.
Ends ==
  [kind : {"exited"}, n : 0..255, core : {FALSE}]
    \cup [kind : {"signaled"}, n : 1..31, core : BOOLEAN]
Raw(e) ==
  IF e.kind = "exited" THEN ExitedWith(e.n)
  ELSE KilledBy(e.n) + (IF e.core THEN 128 ELSE 0)

\* A ProcessState as Process.Wait returns it, not yet looked at.
InitStatus ==
  /\ New("none") /\ lookPathErr = FALSE
  /\ lp = NoLookup /\ psv = NoSaver /\ launch = AsCommand /\ Usual
  /\ \E e \in Ends : ws = [given |-> TRUE, end |-> e, status |-> Raw(e), decoded |-> FALSE]

\* The caller reads the ProcessState (and the ExitError made of it) through
\* its methods.
Decode ==
  /\ ws.given /\ ~ws.decoded
  /\ ws' = [given |-> TRUE, end |-> ws.end, status |-> ws.status, decoded |-> TRUE,
            Exited |-> Exited(ws.status),
            Success |-> Success(ws.status),
            ExitCode |-> ExitCode(ws.status),
            String |-> String(variant, ws.status),
            Error |-> Error(variant, ws.status)]
  /\ UNCHANGED <<cmdVars, variant, pipes, gstate, child, reader, sinks, watch, lp,
                 psv, pc, call, ret, hist, hasChdir, fa, other>>

NextStatus == Decode

SpecStatus == InitStatus /\ [][NextStatus]_vars

\* ----------------------------------------------------------------- Wait
\* A Wait that does not look at c.Process, and one that does not look at
\* c.finished.
WaitGuardNoProcessCheck == IF finished THEN "misuse" ELSE "nil"
WaitGuardNoFinishedCheck == IF ~Process.set THEN "misuse" ELSE "nil"

\* The checks both variants of Wait make on entry: the error Wait returns
\* at once, or "nil" when it marks the Cmd finished and goes on to reap.
WaitGuard ==
  IF ~Process.set THEN "misuse"
  ELSE IF finished THEN "misuse"
  ELSE "nil"

Wait ==
  /\ pc = "idle"
  /\ LET g == WaitGuard IN
     IF g # "nil"
     THEN /\ ret' = Ret("Wait", g)
          /\ UNCHANGED <<finished, pc, call>>
     ELSE /\ finished' = TRUE
          /\ pc' = "reap"
          /\ call' = "Wait"
          /\ ret' = NoRet
  /\ UNCHANGED <<fixed, ctx, streams, Process, ProcessState, childIOFiles,
                 parentIOPipes, goroutine, goroutineErr, goroutineMu, usedFlags,
                 osCmd, pipes, gstate, child, reader, sinks, watch, hist>>

\* The first recorded copy error, if any.
CopyErr(errs) == IF \E i \in DOMAIN errs : errs[i] # "nil" THEN "copy" ELSE "nil"

\* A Wait that looks at the copy errors before the exit status.
WaitResultCopyFirst(reapOK, st, copyErr) ==
  IF ~reapOK THEN "reap"
  ELSE IF copyErr # "nil" THEN copyErr
  ELSE IF ~Success(st) THEN "exit"
  ELSE "nil"

\* The error Wait returns, from the outcome of the reap, the raw status the
\* reap reported and the recorded copy errors.
WaitResult(reapOK, st, copyErr) ==
  IF ~reapOK THEN "reap"
  ELSE IF ~Success(st) THEN "exit"
  ELSE IF copyErr # "nil" THEN copyErr
  ELSE "nil"

\* What the running API operation hands back when its Wait returns err.
Returned(err, st) ==
  LET captureErr == call = "Output" /\ Stderr.kind = "saver"
      ee == err = "exit" /\ captureErr
  IN [op |-> call, err |-> err, status |-> st,
      out |-> IF call \in {"Output", "CombinedOutput"} THEN sinks["outBuf"] ELSE <<>>,
      captured |-> ee,
      stderr |-> IF ee THEN sinks["saver"] ELSE <<>>]

\* Process.Wait of the darwin variant, then the closing of the retained
\* parent-side pipe ends. wait4 blocks until the child has ended; it may
\* also fail (osErr), and Process.Wait fails without a syscall on a
\* released handle.
WaitReap ==
  /\ pc = "reap" /\ variant = "primary"
  /\ \E osErr \in BOOLEAN :
       IF Process.Pid <= 0 \/ osErr
       THEN /\ ret' = Returned(WaitResult(FALSE, 0, "nil"), 0)
            /\ pc' = "idle" /\ call' = "none"
            /\ UNCHANGED <<ProcessState, parentIOPipes, pipes, child, hist>>
       ELSE /\ child.state = "zombie"
            /\ child' = [child EXCEPT !.state = "reaped"]
            /\ hist' = [hist EXCEPT !.reaps = @ + 1]
            /\ ProcessState' = [set |-> TRUE, status |-> child.status]
            /\ pipes' = CloseAll(pipes, parentIOPipes)
            /\ parentIOPipes' = <<>>
            /\ pc' = "collect"
            /\ UNCHANGED <<ret, call>>
  /\ UNCHANGED <<fixed, ctx, streams, Process, finished, childIOFiles, goroutine,
                 goroutineErr, goroutineMu, usedFlags, osCmd, gstate, reader, sinks,
                 watch>>

\* The rest of Wait in the darwin variant: with the mutex held, read the
\* outcome slots, then return by precedence.
WaitCollect ==
  /\ pc = "collect" /\ variant = "primary"
  /\ goroutineMu = 0
  /\ ret' = Returned(WaitResult(TRUE, ProcessState.status, CopyErr(goroutineErr)),
                     ProcessState.status)
  /\ pc' = "idle" /\ call' = "none"
  /\ UNCHANGED <<fixed, ctx, streams, Process, ProcessState, finished, childIOFiles,
                 parentIOPipes, goroutine, goroutineErr, goroutineMu, usedFlags,
                 osCmd, pipes, gstate, child, reader, sinks, watch, hist>>

\* osCmd.Wait() of the !darwin variant, first half: os/exec reaps its own
\* os.Process (blocking until the child has ended, or failing), keeps the
\* state, and turns to its context watcher: a watcher whose context is not
\* done is stopped, one whose context is done is left to act.
WaitReapOs ==
  /\ pc = "reap" /\ variant = "fallback"
  /\ \E osErr \in BOOLEAN :
       IF osErr
       THEN UNCHANGED <<osCmd, child, hist>>
       ELSE /\ child.state = "zombie"
            /\ child' = [child EXCEPT !.state = "reaped"]
            /\ hist' = [hist EXCEPT !.reaps = @ + 1]
            /\ osCmd' = [osCmd EXCEPT !.ProcessState =
                                        [set |-> TRUE, status |-> child.status]]
  /\ watch' = IF watch = "armed" /\ ctx # "done" THEN "off" ELSE watch
  /\ pc' = "collect"
  /\ UNCHANGED <<fixed, ctx, streams, Process, ProcessState, finished, childIOFiles,
                 parentIOPipes, goroutine, goroutineErr, goroutineMu, usedFlags,
                 pipes, gstate, reader, sinks, call, ret>>

\* osCmd.Wait(), second half, and the rest of Wait in the !darwin variant:
\* os/exec takes the result of a watcher that was left to act, waits for
\* all its copy goroutines, returns by its precedence
\* (reap error, exit error, context error, copy error), and the state and
\* the error are converted.
WaitCollectOs ==
  /\ pc = "collect" /\ variant = "fallback"
  /\ watch # "armed"
  /\ \A i \in DOMAIN gstate : gstate[i] = "done"
  /\ LET ps == osCmd.ProcessState
         e0 == WaitResult(ps.set, ps.status, "nil")
         e1 == IF e0 = "nil" /\ osCmd.ctxErr THEN "ctx" ELSE e0
         e2 == IF e1 = "nil" THEN CopyErr(osCmd.goroutineErr) ELSE e1
     IN /\ ProcessState' = IF ps.set THEN ps ELSE ProcessState
        /\ ret' = Returned(e2, ps.status)
  /\ pc' = "idle" /\ call' = "none"
  /\ UNCHANGED <<fixed, ctx, streams, Process, finished, childIOFiles,
                 parentIOPipes, goroutine, goroutineErr, goroutineMu, usedFlags,
                 osCmd, pipes, gstate, child, reader, sinks, watch, hist>>

\* A signal that ends the process if it is still running (a signal sent to
\* a process that has ended and is not yet reaped changes nothing).
Signalled(sig) ==
  IF child.state = "running" THEN ChildEnds(KilledBy(sig))
  ELSE UNCHANGED <<child, pipes>>

\* ---------------------------------------------------- the Process handle
\* The operations of *Process, as the caller uses them on c.Process. The
\* type is the same in both variants.
\* The signal values a caller may pass: os.Signal values that are
\* syscall.Signal (SIGKILL, SIGTERM), and one of another implementation.
Signals == {[platform |-> TRUE, num |-> 9], [platform |-> TRUE, num |-> 15],
            [platform |-> FALSE, num |-> 9]}
SIGKILL == [platform |-> TRUE, num |-> 9]

\* A Signal that does not look at p.Pid.
SignalGuardNoPidCheck(sig) == IF ~sig.platform THEN "invalid" ELSE "nil"

\* The checks Signal makes before the syscall: the error it returns at
\* once, or "nil" when it goes on to unix.Kill.
SignalGuard(sig) ==
  IF Process.Pid <= 0 THEN "invalid"
  ELSE IF ~sig.platform THEN "invalid"
  ELSE "nil"

\* kill(2) reaches the created process when given its pid (and also when
\* given 0 or -1, which stand for the caller's process group and for every
\* process the caller may signal).
Reaches(pid) == child.state # "none" /\ pid \in {1, 0, -1}

\* unix.Kill(p.Pid, s): the signal ends a running process; a zombie takes it
\* without effect; a pid that names no process is an error (ESRCH).
SignalOp(op, sig) ==
  /\ pc = "idle" /\ Process.set
  /\ LET g == SignalGuard(sig) IN
     IF g # "nil"
     THEN /\ ret' = Ret(op, g)
          /\ UNCHANGED <<child, pipes>>
     ELSE IF Reaches(Process.Pid) /\ child.state # "reaped"
          THEN /\ ret' = Ret(op, "nil")
               /\ Signalled(sig.num)
          ELSE /\ ret' = Ret(op, "esrch")
               /\ UNCHANGED <<child, pipes>>
  /\ UNCHANGED <<fixed, ctx, streams, Process, ProcessState, finished, childIOFiles,
                 parentIOPipes, goroutine, goroutineErr, goroutineMu, usedFlags,
                 osCmd, gstate, reader, sinks, watch, pc, call, hist>>

\* Process.Signal(sig)
ProcessSignal(sig) == SignalOp("Signal", sig)

\* Process.Kill()
ProcessKill == SignalOp("Kill", SIGKILL)

\* Process.Release()
Release ==
  /\ pc = "idle" /\ Process.set
  /\ Process' = [Process EXCEPT !.Pid = -1]
  /\ ret' = Ret("Release", "nil")
  /\ UNCHANGED <<fixed, ctx, streams, ProcessState, finished, childIOFiles,
                 parentIOPipes, goroutine, goroutineErr, goroutineMu, usedFlags,
                 osCmd, pipes, gstate, child, reader, sinks, watch, pc, call, hist>>

\* Process.Wait() called by the caller itself: it fails at once on a
\* non-positive Pid; otherwise wait4 blocks until the process has ended and
\* reaps it, or fails (ECHILD) when the pid names no child any more. The
\* ProcessState it returns goes to the caller, not into the Cmd.
ProcessWait ==
  /\ pc = "idle" /\ Process.set
  /\ IF Process.Pid <= 0
     THEN /\ ret' = Ret("Process.Wait", "invalid")
          /\ UNCHANGED <<child, hist>>
     ELSE IF child.state = "reaped"
          THEN /\ ret' = Ret("Process.Wait", "reap")
               /\ UNCHANGED <<child, hist>>
          ELSE /\ child.state = "zombie"
               /\ child' = [child EXCEPT !.state = "reaped"]
               /\ hist' = [hist EXCEPT !.reaps = @ + 1]
               /\ ret' = [Ret("Process.Wait", "nil") EXCEPT !.status = child.status]
  /\ UNCHANGED <<fixed, ctx, streams, Process, ProcessState, finished, childIOFiles,
                 parentIOPipes, goroutine, goroutineErr, goroutineMu, usedFlags,
                 osCmd, pipes, gstate, reader, sinks, watch, pc, call>>

\* ----------------------------------------------------------- cancellation
\* The context given to CommandContext is cancelled.
CtxCancel ==
  /\ ctx = "live"
  /\ ctx' = "done"
  /\ UNCHANGED <<fixed, streams, Process, ProcessState, finished, childIOFiles,
                 parentIOPipes, goroutine, goroutineErr, goroutineMu, usedFlags,
                 osCmd, pipes, gstate, child, reader, sinks, watch, pc, call, ret,
                 hist>>

\* watchContext: once the context is done the watcher of the darwin variant
\* calls the caller's Cancel hook when one is set (what the hook does is the
\* caller's choice: it may end the process or not) and Process.Kill when
\* none is; Process.Kill signals the pid unless it is non-positive. In the
\* !darwin variant the watcher is that of the exec.Cmd, which was given the
\* context and nothing else: it kills its own os.Process, which refuses once
\* os/exec has reaped it, and a delivered kill makes Wait report the
\* context's error.
WatchFire ==
  /\ watch = "armed" /\ ctx = "done"
  /\ watch' = "fired"
  /\ IF variant = "primary"
     THEN /\ IF Cancel
             THEN /\ hist' = [hist EXCEPT !.hooks = @ + 1]
                  /\ \E ends \in BOOLEAN :
                       IF ends THEN Signalled(15) ELSE UNCHANGED <<child, pipes>>
             ELSE IF Process.Pid <= 0
                  THEN UNCHANGED <<child, pipes, hist>>
                  ELSE /\ hist' = [hist EXCEPT !.kills = @ + 1]
                       /\ Signalled(9)
          /\ UNCHANGED osCmd
     ELSE IF osCmd.ProcessState.set
          THEN UNCHANGED <<child, pipes, hist, osCmd>>
          ELSE /\ hist' = [hist EXCEPT !.kills = @ + 1]
               /\ osCmd' = [osCmd EXCEPT !.ctxErr = TRUE]
               /\ Signalled(9)
  /\ UNCHANGED <<fixed, ctx, streams, Process, ProcessState, finished, childIOFiles,
                 parentIOPipes, goroutine, goroutineErr, goroutineMu, usedFlags,
                 gstate, reader, sinks, pc, call, ret>>

\* --------------------------------------- the caller's use of the pipe handles
\* The caller writes the next byte to the handle StdinPipe returned; a
\* write to a pipe nobody reads fails and the caller gives up.
HandleWrite ==
  /\ Process.set
  /\ Stdin.kind = "pr" /\ pipes[Stdin.ref].wPar
  /\ Len(reader.data) < reader.len
  /\ LET q == pipes[Stdin.ref] IN
     IF Broken(q)
     THEN /\ reader' = [reader EXCEPT !.len = Len(reader.data)]
          /\ UNCHANGED pipes
     ELSE /\ Len(q.buf) < PipeCap
          /\ LET b == Len(reader.data) + 1 IN
               /\ pipes' = [pipes EXCEPT ![Stdin.ref].buf = Append(@, b)]
               /\ reader' = [reader EXCEPT !.data = Append(@, b)]
  /\ UNCHANGED <<fixed, ctx, streams, Process, ProcessState, finished, childIOFiles,
                 parentIOPipes, goroutine, goroutineErr, goroutineMu, usedFlags,
                 osCmd, gstate, child, sinks, watch, pc, call, ret, hist>>

\* The caller closes the handle StdinPipe returned.
HandleClose ==
  /\ Process.set
  /\ Stdin.kind = "pr" /\ pipes[Stdin.ref].wPar
  /\ pipes' = CloseEnd(pipes, V("pw", Stdin.ref))
  /\ UNCHANGED <<fixed, ctx, streams, Process, ProcessState, finished, childIOFiles,
                 parentIOPipes, goroutine, goroutineErr, goroutineMu, usedFlags,
                 osCmd, gstate, child, reader, sinks, watch, pc, call, ret, hist>>

\* The caller reads one byte from the handle StdoutPipe / StderrPipe returned.
HandleRead ==
  /\ \E h \in Handles :
       LET v == IF h = "rdOut" THEN Stdout ELSE Stderr IN
       /\ Process.set
       /\ v.kind = "pw" /\ pipes[v.ref].rPar
       /\ pipes[v.ref].buf # <<>>
       /\ sinks' = [sinks EXCEPT ![h] = Append(@, Head(pipes[v.ref].buf))]
       /\ pipes' = [pipes EXCEPT ![v.ref].buf = Tail(@)]
  /\ UNCHANGED <<fixed, ctx, streams, Process, ProcessState, finished, childIOFiles,
                 parentIOPipes, goroutine, goroutineErr, goroutineMu, usedFlags,
                 osCmd, gstate, child, reader, watch, pc, call, ret, hist>>

\* ------------------------------------------------------------ LookPath
\* A path is [abs, elems]: whether it begins with the separator, and its
\* elements between separators. "prog" is [FALSE, <<"prog">>], "./prog" is
\* [FALSE, <<".", "prog">>], "/bin" is [TRUE, <<"bin">>], and the empty
\* string is [FALSE, <<>>].
P(abs, elems) == [abs |-> abs, elems |-> elems]
EmptyString == P(FALSE, <<>>)

\* The names given to LookPath and Command, and the entries PATH may hold
\* (filepath.SplitList of the variable): "", ".", "rel" and "/bin".
Names == {P(FALSE, <<"prog">>), P(FALSE, <<".", "prog">>),
          P(FALSE, <<"rel", "prog">>), P(TRUE, <<"bin", "prog">>)}
Entries == {EmptyString, P(FALSE, <<".">>), P(FALSE, <<"rel">>), P(TRUE, <<"bin">>)}
PathLists == UNION {[1..n -> Entries] : n \in 0..MaxPath}

\* What os.Stat finds at a location: nothing, a directory, a regular file
\* without or with an execute bit, or a file that is neither regular nor a
\* directory (a FIFO, a socket, a device) with an execute bit.
Kinds == {"none", "dir", "reg", "regx", "fifox"}
\* The locations the names and entries above can lead to, and the file
\* systems over them.
Locations == {P(FALSE, <<"prog">>), P(FALSE, <<"rel", "prog">>),
              P(TRUE, <<"bin", "prog">>)}
FileSystems == [Locations -> Kinds]

\* strings.Contains(file, "/")
ContainsSlash(file) == file.abs \/ Len(file.elems) > 1
\* filepath.Clean, as far as these paths need it: "." elements are dropped.
Clean(path) == [path EXCEPT !.elems = SelectSeq(@, LAMBDA e : e # ".")]
\* filepath.Join(dir, file): the two are joined by a separator and cleaned.
Join(dir, file) == Clean(P(dir.abs, dir.elems \o file.elems))
\* filepath.IsAbs
IsAbs(path) == path.abs
\* os.Stat(path).Mode(), "none" when Stat fails
Stat(fs, path) == IF Clean(path) \in DOMAIN fs THEN fs[Clean(path)] ELSE "none"

\* A findExecutable that takes a directory with execute bits for a match,
\* and one that does not look at the execute bits.
findExecutableNoDirCheck(fs, file) ==
  LET m == Stat(fs, file) IN
  IF m = "none" THEN "stat"
  ELSE IF m \in {"dir", "regx", "fifox"} THEN "nil"
  ELSE "perm"
findExecutableNoModeCheck(fs, file) ==
  LET m == Stat(fs, file) IN
  IF m = "none" THEN "stat"
  ELSE IF m = "dir" THEN "perm"
  ELSE "nil"

\* findExecutable: "nil", or the error: that of Stat, or os.ErrPermission.
findExecutable(fs, file) ==
  LET m == Stat(fs, file) IN
  IF m = "none" THEN "stat"
  ELSE IF m = "dir" THEN "perm"
  ELSE IF m \in {"regx", "fifox"} THEN "nil"
  ELSE "perm"

\* isExecutable
isExecutable(fs, path) ==
  LET m == Stat(fs, path) IN
  IF m = "none" THEN FALSE
  ELSE m = "regx"

\* What LookPath returns: the path, and the error: "nil", or an *Error with
\* Name and Err ("dot" is ErrDot, "notfound" is ErrNotFound). `scanned`
\* counts the PATH entries LookPath went through.
Found(path, name, err, n) == [path |-> path, name |-> name, err |-> err, scanned |-> n]

\* The loop of LookPath over the entries not yet tried, n of them tried.
RECURSIVE ScanPath(_, _, _, _)
ScanPath(fs, file, dirs, n) ==
  IF dirs = <<>> THEN Found(EmptyString, file, "notfound", n)
  ELSE LET dir == IF Head(dirs) = EmptyString THEN P(FALSE, <<".">>) ELSE Head(dirs)
           path == Join(dir, file)
       IN IF findExecutable(fs, path) = "nil"
          THEN IF ~IsAbs(path) /\ isExecutable(fs, path)
               THEN Found(path, file, "dot", n + 1)
               ELSE Found(path, EmptyString, "nil", n + 1)
          ELSE ScanPath(fs, file, Tail(dirs), n + 1)

LookPath(fs, PATH, file) ==
  IF ContainsSlash(file)
  THEN LET err == findExecutable(fs, file) IN
       IF err = "nil" THEN Found(file, EmptyString, "nil", 0)
       ELSE Found(EmptyString, file, err, 0)
  ELSE ScanPath(fs, file, PATH, 0)

\* The inputs of a lookup, before anything is called.
InitLookPath ==
  /\ New("none") /\ variant = "primary" /\ lookPathErr = FALSE
  /\ psv = NoSaver /\ ws = NoStatus /\ launch = AsCommand /\ Usual
  /\ lp \in [given : {TRUE}, file : Names, PATH : PathLists, fs : FileSystems,
             op : {"none"}]

lookupFrame == <<ctx, Cancel, streams, Process, ProcessState, finished, childIOFiles,
                 parentIOPipes, goroutine, goroutineErr, goroutineMu, usedFlags,
                 osCmd, variant, pipes, gstate, child, reader, sinks, watch, pc,
                 call, ret, hist, psv, ws, launch, hasChdir, fa, other>>

\* LookPath(file) is called.
LookPathCall ==
  /\ lp.given /\ lp.op = "none"
  /\ lp' = [given |-> TRUE, file |-> lp.file, PATH |-> lp.PATH, fs |-> lp.fs,
            op |-> "LookPath", res |-> LookPath(lp.fs, lp.PATH, lp.file)]
  /\ UNCHANGED <<lookupFrame, lookPathErr>>

\* filepath.Base(name) == name, for the names above
IsBase(name) == ~ContainsSlash(name)

\* Command(name) is called: Path is name or what LookPath made of it, and
\* LookPath's error is stored.
Command ==
  /\ lp.given /\ lp.op = "none"
  /\ LET r == IF IsBase(lp.file) THEN LookPath(lp.fs, lp.PATH, lp.file)
              ELSE Found(lp.file, EmptyString, "nil", 0)
     IN /\ lp' = [given |-> TRUE, file |-> lp.file, PATH |-> lp.PATH, fs |-> lp.fs,
                  op |-> "Command",
                  res |-> [r EXCEPT !.path = IF r.err = "nil" THEN r.path ELSE lp.file]]
        /\ lookPathErr' = (r.err # "nil")
  /\ UNCHANGED lookupFrame

NextLookPath == LookPathCall \/ Command

SpecLookPath == InitLookPath /\ [][NextLookPath]_vars

\* ------------------------------------------------------ prefixSuffixSaver
\* min
min(a, b) == IF a < b THEN a ELSE b

\* A fill that appends all of p, whatever room is left.
fillAll(N, dst, p) == [dst |-> dst \o p, p |-> <<>>]

\* fill: as much of p as dst has room for (up to N bytes in all) is appended
\* to dst; the result is the new dst and what remains of p.
fill(N, dst, p) ==
  LET remain == N - Len(dst) IN
  IF remain > 0
  THEN LET add == min(Len(p), remain) IN
       [dst |-> dst \o SubSeq(p, 1, add), p |-> SubSeq(p, add + 1, Len(p))]
  ELSE [dst |-> dst, p |-> p]

\* copy(suffix[off:], p): the bytes copied overwrite suffix from offset off.
Copy(suffix, off, p) ==
  LET n == min(Len(suffix) - off, Len(p)) IN
  [suffix |-> [i \in 1..Len(suffix) |->
                 IF i > off /\ i <= off + n THEN p[i - off] ELSE suffix[i]],
   n |-> n]

\* The loop of Write that overwrites the full suffix as a ring.
RECURSIVE Ring(_, _, _, _)
Ring(N, suffix, suffixOff, p) ==
  IF Len(p) = 0 THEN [suffix |-> suffix, suffixOff |-> suffixOff]
  ELSE LET c == Copy(suffix, suffixOff, p)
           off == suffixOff + c.n
       IN Ring(N, c.suffix, IF off = N THEN 0 ELSE off, SubSeq(p, c.n + 1, Len(p)))

\* prefixSuffixSaver.Write(p) on the saver w
Write(w, p) ==
  LET f1 == fill(w.N, w.prefix, p)
      overage == Len(f1.p) - w.N
      p2 == IF overage > 0 THEN SubSeq(f1.p, overage + 1, Len(f1.p)) ELSE f1.p
      f2 == fill(w.N, w.suffix, p2)
      r == Ring(w.N, f2.dst, w.suffixOff, f2.p)
  IN [w EXCEPT !.prefix = f1.dst,
               !.skipped = IF overage > 0 THEN @ + overage ELSE @,
               !.suffix = r.suffix,
               !.suffixOff = r.suffixOff]

\* &prefixSuffixSaver{N: n}, nothing written yet. `written` is everything
\* written so far and `chunks` the lengths of the Write calls.
InitSaver ==
  /\ New("none") /\ variant = "primary" /\ lookPathErr = FALSE
  /\ lp = NoLookup /\ ws = NoStatus /\ launch = AsCommand /\ Usual
  /\ psv \in [given : {TRUE}, N : 1..MaxN, prefix : {<<>>}, suffix : {<<>>},
              suffixOff : {0}, skipped : {0}, written : {<<>>}, chunks : {<<>>},
              rendered : {FALSE}, out : {<<>>}]

\* The caller (io.Copy from the child's stderr) writes the next n bytes;
\* byte number i of the stream has the value i.
WriteCall ==
  /\ psv.given /\ Len(psv.chunks) < MaxCalls
  /\ \E n \in 0..(MaxTotal - Len(psv.written)) :
       LET T == Len(psv.written)
           p == [i \in 1..n |-> T + i]
       IN psv' = [Write(psv, p) EXCEPT !.written = @ \o p, !.chunks = Append(@, n),
                                       !.rendered = FALSE, !.out = <<>>]
  /\ UNCHANGED <<cmdVars, variant, pipes, gstate, child, reader, sinks, watch, lp,
                 ws, pc, call, ret, hist, hasChdir, fa, other>>

\* The text of the marker is kept apart from the bytes of the stream (which
\* are positive): its fixed parts and its decimal digits are negative.
OmittingHead == <<-1>>    \* "\n... omitting "
OmittingTail == <<-2>>    \* " bytes ...\n"
Digit(d) == -(10 + d)     \* byte('0' + d)

\* itoa: the decimal digits of i, most significant first; nothing for 0.
RECURSIVE itoa(_)
itoa(i) == IF i > 0 THEN itoa(i \div 10) \o <<Digit(i % 10)>> ELSE <<>>

\* prefixSuffixSaver.Bytes() on the saver w. suffix is nil until fill has
\* appended a byte to it.
Bytes(w) ==
  IF Len(w.suffix) = 0 THEN w.prefix
  ELSE IF w.skipped = 0 THEN w.prefix \o w.suffix
  ELSE w.prefix \o OmittingHead \o itoa(w.skipped) \o OmittingTail
         \o SubSeq(w.suffix, w.suffixOff + 1, Len(w.suffix))
         \o SubSeq(w.suffix, 1, w.suffixOff)

\* The caller (Output, filling ExitError.Stderr) renders the capture.
BytesCall ==
  /\ psv.given /\ ~psv.rendered
  /\ psv' = [psv EXCEPT !.rendered = TRUE, !.out = Bytes(psv)]
  /\ UNCHANGED <<cmdVars, variant, pipes, gstate, child, reader, sinks, watch, lp,
                 ws, pc, call, ret, hist, hasChdir, fa, other>>

NextSaver == WriteCall \/ BytesCall

SpecSaver == InitSaver /\ [][NextSaver]_vars

\* ------------------------------------------------------------------- Next
\* The steps of the environment: the scheduler running the copy goroutines,
\* and the child process.
Background ==
  \/ \E i \in 1..MaxPipes : GoroutineLock(i) \/ CopyMove(i) \/ CopyFinish(i)
  \/ ChildExit \/ ChildRead \/ ChildWrite \/ ChildCatExit
  \/ ChildEmit \/ ChildEmitExit

\* A caller that binds its streams directly and uses no context.
Next ==
  \/ AssignStdin \/ AssignStdout \/ AssignStderr
  \/ Start \/ Run \/ Output \/ CombinedOutput
  \/ Wait \/ WaitReap \/ WaitCollect \/ WaitReapOs \/ WaitCollectOs
  \/ Background

Spec == Init /\ [][Next]_vars

\* The same caller with a context that may be cancelled at any moment.
NextCtx ==
  \/ Next
  \/ CtxCancel \/ WatchFire

SpecCtx == InitCtx /\ [][NextCtx]_vars

\* A caller that also uses the pipe accessors and the handles they return,
\* and no context. It starts the Cmd once, calls Wait once, and tries the
\* accessors at any moment before it calls Wait.
NextPipes ==
  \/ AssignStdin \/ AssignStdout \/ AssignStderr
  \/ (~finished /\ (StdinPipe \/ StdoutPipe \/ StderrPipe))
  \/ (~Process.set /\ Start)
  \/ (~finished /\ Wait)
  \/ WaitReap \/ WaitCollect \/ WaitReapOs \/ WaitCollectOs
  \/ HandleWrite \/ HandleClose \/ HandleRead
  \/ Background

SpecPipes == Init /\ [][NextPipes]_vars

\* A caller that starts a Cmd made by CommandContext, whose context is
\* cancelled while the process runs, and that calls Wait after that.
NextCancel ==
  \/ AssignStdin \/ AssignStdout \/ AssignStderr
  \/ (~Process.set /\ Start)
  \/ (child.state = "running" /\ CtxCancel)
  \/ WatchFire
  \/ (ctx = "done" /\ ~finished /\ Wait)
  \/ WaitReap \/ WaitCollect \/ WaitReapOs \/ WaitCollectOs
  \/ Background

SpecCancel == InitCtx /\ [][NextCancel]_vars

\* A caller of CommandContext whose context may be cancelled before it
\* starts the Cmd, and is not cancelled once the process exists.
NextPreCancel ==
  \/ AssignStdin \/ AssignStdout \/ AssignStderr
  \/ (~Process.set /\ CtxCancel)
  \/ (~Process.set /\ Start)
  \/ (~finished /\ Wait)
  \/ WaitReap \/ WaitCollect \/ WaitReapOs \/ WaitCollectOs
  \/ Background

SpecPreCancel == InitCtx /\ [][NextPreCancel]_vars

\* A caller that takes the StdinPipe handle, starts the Cmd, writes to the
\* handle and closes it, and calls Wait; it binds Stdout and Stderr directly
\* or leaves them unset.
NextStdinPipe ==
  \/ AssignStdout \/ AssignStderr
  \/ (~Process.set /\ StdinPipe)
  \/ (~Process.set /\ Start)
  \/ (~finished /\ Wait)
  \/ WaitReap \/ WaitCollect \/ WaitReapOs \/ WaitCollectOs
  \/ HandleWrite \/ HandleClose
  \/ Background

\* The operating system keeps running the child, the Go scheduler keeps
\* running the copy goroutines and the thread inside Wait; the caller is
\* under no obligation.
Scheduling ==
  /\ WF_vars(ChildExit) /\ WF_vars(ChildRead) /\ WF_vars(ChildWrite)
  /\ WF_vars(ChildCatExit) /\ WF_vars(ChildEmit) /\ WF_vars(ChildEmitExit)
  /\ \A i \in 1..MaxPipes :
       WF_vars(GoroutineLock(i)) /\ WF_vars(CopyMove(i)) /\ WF_vars(CopyFinish(i))
  /\ WF_vars(WaitReap) /\ WF_vars(WaitCollect)
  /\ WF_vars(WaitReapOs) /\ WF_vars(WaitCollectOs)

SpecStdinPipe == Init /\ [][NextStdinPipe]_vars /\ Scheduling

\* A caller that starts the Cmd with no stream bound and then works on
\* c.Process itself (Signal, Kill, Release, Wait) and calls the Cmd's Wait.
NextProcess ==
  \/ (~Process.set /\ Start)
  \/ (\E sig \in Signals : ProcessSignal(sig))
  \/ ProcessKill
  \/ Release
  \/ ProcessWait
  \/ Wait \/ WaitReap \/ WaitCollect \/ WaitReapOs \/ WaitCollectOs
  \/ ChildExit

SpecProcess == Init /\ [][NextProcess]_vars

\* The Path and Args a caller may have put in the Cmd before Start: as
\* Command made them, or set by hand, Args possibly empty.
RECURSIVE SeqsUpTo(_, _)
SeqsUpTo(S, n) ==
  IF n = 0 THEN {<<>>}
  ELSE LET T == SeqsUpTo(S, n - 1) IN T \cup {Append(t, x) : t \in T, x \in S}
Launches == [Path : {"/bin/prog", "./prog"},
             Args : SeqsUpTo({"prog", "./prog", "-x"}, MaxArgs),
             Dir : {""}, Env : {NoEnv}]

InitLaunch ==
  /\ New("none")
  /\ lp = NoLookup /\ psv = NoSaver /\ ws = NoStatus /\ Usual
  /\ launch \in Launches

\* A caller that starts such a Cmd once, with no stream bound, and waits.
NextLaunch ==
  \/ (~Process.set /\ Start)
  \/ Wait \/ WaitReap \/ WaitCollect \/ WaitReapOs \/ WaitCollectOs
  \/ ChildExit

SpecLaunch == InitLaunch /\ [][NextLaunch]_vars

\* The working directory a caller may ask for, on a platform with or
\* without the change-directory file action.
InitDir ==
  /\ New("none")
  /\ lp = NoLookup /\ psv = NoSaver /\ ws = NoStatus
  /\ fa = NoActions /\ other = NoOther
  /\ hasChdir \in BOOLEAN
  /\ launch \in [Path : {"/bin/prog"}, Args : {<<"prog">>}, Dir : {"", "/work"},
                 Env : {NoEnv}]

\* A caller that binds its streams, starts such a Cmd once and waits.
NextDir ==
  \/ AssignStdin \/ AssignStdout \/ AssignStderr
  \/ (~Process.set /\ Start)
  \/ Wait \/ WaitReap \/ WaitCollect \/ WaitReapOs \/ WaitCollectOs
  \/ Background

SpecDir == InitDir /\ [][NextDir]_vars

\* The most entries a caller puts in c.Env.
MaxEnv == 2

\* The c.Env a caller may have set: nil, or up to MaxEnv entries.
Envs == {NoEnv} \cup
        [set : {TRUE},
         list : SeqsUpTo({Entry(k, v) : k \in {"A", "B"}, v \in {1, 2}}, MaxEnv)]

InitEnv ==
  /\ New("none")
  /\ lp = NoLookup /\ psv = NoSaver /\ ws = NoStatus /\ Usual
  /\ launch \in [Path : {"/bin/prog"}, Args : {<<"prog">>}, Dir : {""}, Env : Envs]

SpecEnv == InitEnv /\ [][NextLaunch]_vars

\* A caller that starts a Cmd made by CommandContext and calls Wait once;
\* the context is cancelled at any moment after the Start, before, during
\* or after the Wait.
NextLateCancel ==
  \/ AssignStdout
  \/ (~Process.set /\ Start)
  \/ (Process.set /\ CtxCancel)
  \/ WatchFire
  \/ (~finished /\ Wait)
  \/ WaitReap \/ WaitCollect \/ WaitReapOs \/ WaitCollectOs
  \/ \E i \in 1..MaxPipes : GoroutineLock(i) \/ CopyMove(i) \/ CopyFinish(i)
  \/ ChildExit \/ ChildRead \/ ChildCatExit \/ ChildEmit \/ ChildEmitExit

SpecLateCancel == InitCtx /\ [][NextLateCancel]_vars

\* ------------------------------------------------- a second thread in Wait
\* Wait as a second thread of the caller runs it, statement by statement:
\* nothing orders its reads and writes of c.finished with those of the
\* first thread.
otherFrame == <<variant, lookPathErr, launch, Cancel, lp, psv, ws, hasChdir, fa, ctx,
                streams, Process, childIOFiles, goroutine, goroutineErr, goroutineMu,
                usedFlags, gstate, reader, sinks, pc, call, ret>>

\* The second thread enters Wait and makes the two checks.
OtherWaitCheck ==
  /\ other.pc = "idle"
  /\ other' = IF WaitGuard # "nil" THEN [pc |-> "idle", err |-> WaitGuard]
              ELSE [pc |-> "checked", err |-> "none"]
  /\ UNCHANGED <<otherFrame, finished, ProcessState, parentIOPipes, osCmd, pipes,
                 child, watch, hist>>

\* c.finished = true
OtherWaitMark ==
  /\ other.pc = "checked"
  /\ finished' = TRUE
  /\ other' = [other EXCEPT !.pc = "reap"]
  /\ UNCHANGED <<otherFrame, ProcessState, parentIOPipes, osCmd, pipes, child,
                 watch, hist>>

\* The reap: c.Process.Wait() and the closing of the retained ends in the
\* darwin variant, the first half of osCmd.Wait() in the !darwin variant
\* (which refuses when the exec.Cmd has its state already). wait4 blocks
\* while the child runs, fails when the child has been reaped, and may fail
\* otherwise (osErr).
OtherWaitReap ==
  /\ other.pc = "reap"
  /\ \E osErr \in BOOLEAN :
       IF variant = "primary"
       THEN IF Process.Pid <= 0 \/ osErr \/ child.state = "reaped"
            THEN /\ other' = [pc |-> "idle", err |-> WaitResult(FALSE, 0, "nil")]
                 /\ UNCHANGED <<ProcessState, parentIOPipes, osCmd, pipes, child,
                                watch, hist>>
            ELSE /\ child.state = "zombie"
                 /\ child' = [child EXCEPT !.state = "reaped"]
                 /\ hist' = [hist EXCEPT !.reaps = @ + 1]
                 /\ ProcessState' = [set |-> TRUE, status |-> child.status]
                 /\ pipes' = CloseAll(pipes, parentIOPipes)
                 /\ parentIOPipes' = <<>>
                 /\ other' = [other EXCEPT !.pc = "collect"]
                 /\ UNCHANGED <<osCmd, watch>>
       ELSE IF osCmd.ProcessState.set
            THEN /\ other' = [pc |-> "idle", err |-> "misuse"]
                 /\ UNCHANGED <<ProcessState, parentIOPipes, osCmd, pipes, child,
                                watch, hist>>
            ELSE /\ IF osErr \/ child.state = "reaped"
                    THEN UNCHANGED <<osCmd, child, hist>>
                    ELSE /\ child.state = "zombie"
                         /\ child' = [child EXCEPT !.state = "reaped"]
                         /\ hist' = [hist EXCEPT !.reaps = @ + 1]
                         /\ osCmd' = [osCmd EXCEPT !.ProcessState =
                                        [set |-> TRUE, status |-> child.status]]
                 /\ watch' = IF watch = "armed" /\ ctx # "done" THEN "off" ELSE watch
                 /\ other' = [other EXCEPT !.pc = "collect"]
                 /\ UNCHANGED <<ProcessState, parentIOPipes, pipes>>
  /\ UNCHANGED <<otherFrame, finished>>

\* The rest of Wait: the copy outcomes are read (darwin) or the copy
\* goroutines joined (os/exec), and the result is returned by precedence.
OtherWaitCollect ==
  /\ other.pc = "collect"
  /\ IF variant = "primary"
     THEN /\ goroutineMu = 0
          /\ other' = [pc |-> "idle",
                       err |-> WaitResult(TRUE, ProcessState.status,
                                          CopyErr(goroutineErr))]
          /\ UNCHANGED ProcessState
     ELSE /\ watch # "armed"
          /\ \A i \in DOMAIN gstate : gstate[i] = "done"
          /\ LET ps == osCmd.ProcessState
                 e0 == WaitResult(ps.set, ps.status, "nil")
                 e1 == IF e0 = "nil" /\ osCmd.ctxErr THEN "ctx" ELSE e0
                 e2 == IF e1 = "nil" THEN CopyErr(osCmd.goroutineErr) ELSE e1
             IN /\ ProcessState' = IF ps.set THEN ps ELSE ProcessState
                /\ other' = [pc |-> "idle", err |-> e2]
  /\ UNCHANGED <<otherFrame, finished, parentIOPipes, osCmd, pipes, child, watch,
                 hist>>

\* A Cmd with two threads of the caller.
InitTwoWaits ==
  /\ New("none")
  /\ lp = NoLookup /\ psv = NoSaver /\ ws = NoStatus /\ launch = AsCommand
  /\ hasChdir = TRUE /\ fa = NoActions
  /\ other = [pc |-> "idle", err |-> "none"]

\* One thread starts the Cmd; then each of the two threads calls Wait once,
\* at any moment.
NextTwoWaits ==
  \/ AssignStdout
  \/ (~Process.set /\ Start)
  \/ (Process.set /\ ret.op # "Wait" /\ Wait)
  \/ WaitReap \/ WaitCollect \/ WaitReapOs \/ WaitCollectOs
  \/ (Process.set /\ other.err = "none" /\ OtherWaitCheck)
  \/ OtherWaitMark \/ OtherWaitReap \/ OtherWaitCollect
  \/ \E i \in 1..MaxPipes : GoroutineLock(i) \/ CopyMove(i) \/ CopyFinish(i)
  \/ ChildExit \/ ChildRead \/ ChildCatExit \/ ChildEmit \/ ChildEmitExit

SpecTwoWaits == InitTwoWaits /\ [][NextTwoWaits]_vars

\* ------------------------------------ file actions by descriptor number
\* The largest descriptor number the parent has open, and the most entries
\* of c.ExtraFiles.
MaxFd == 4
MaxExtra == 2

Descriptors == 0..MaxFd

\* What a stream or an entry of ExtraFiles is bound to, as far as the file
\* actions go: nothing, or the *os.File whose Fd() is n (for a stream bound
\* to another reader or writer, the end of the pipe Start made for it).
Sources == {Nil} \cup {V("file", n) : n \in Descriptors}

\* The loop over c.ExtraFiles: add_dup2_action(f.Fd(), 3+i) for every
\* non-nil entry i (entry i of the slice is element i+1 of the sequence).
ExtraActions(extra) ==
  LET all == [k \in 1..Len(extra) |-> Dup2(extra[k], 2 + k)]
  IN SelectSeq(all, LAMBDA a : a.src # Nil)

\* The list of file actions Start of the darwin variant builds: the three
\* stream setups, then ExtraFiles.
FileActions(sin, sout, serr, extra) ==
  Setup(StartRec(<<>>, <<>>, <<>>), sin, sout, serr, "none").fileActions
    \o ExtraActions(extra)

\* The file the parent has open as descriptor n; the child's table starts
\* as a copy of the parent's.
Open(n) == V("parent", n)
ParentTable == [n \in Descriptors |-> Open(n)]

\* posix_spawn carries out one file action in the child: the source of a
\* dup2 is a descriptor NUMBER, looked up in the child's table as the
\* actions before it left it.
ApplyAction(table, a) ==
  IF a.op = "open" THEN [table EXCEPT ![a.fd] = a.src]
  ELSE [table EXCEPT ![a.fd] = table[a.src.ref]]

InitFileActions ==
  /\ New("none") /\ variant = "primary" /\ lookPathErr = FALSE
  /\ lp = NoLookup /\ psv = NoSaver /\ ws = NoStatus /\ launch = AsCommand
  /\ hasChdir = TRUE /\ other = NoOther
  /\ fa \in [given : {TRUE}, Stdin : Sources, Stdout : Sources, Stderr : Sources,
             ExtraFiles : SeqsUpTo(Sources, MaxExtra),
             built : {FALSE}, todo : {<<>>}, table : {ParentTable}]

\* Start builds the list.
BuildActions ==
  /\ fa.given /\ ~fa.built
  /\ fa' = [fa EXCEPT !.built = TRUE,
                      !.todo = FileActions(fa.Stdin, fa.Stdout, fa.Stderr,
                                           fa.ExtraFiles)]
  /\ UNCHANGED <<cmdVars, variant, pipes, gstate, child, reader, sinks, watch, lp,
                 psv, ws, pc, call, ret, hist, hasChdir, other>>

\* posix_spawn carries out the next action of the list.
ApplyNext ==
  /\ fa.given /\ fa.built /\ fa.todo # <<>>
  /\ fa' = [fa EXCEPT !.table = ApplyAction(fa.table, Head(fa.todo)),
                      !.todo = Tail(fa.todo)]
  /\ UNCHANGED <<cmdVars, variant, pipes, gstate, child, reader, sinks, watch, lp,
                 psv, ws, pc, call, ret, hist, hasChdir, other>>

NextFileActions == BuildActions \/ ApplyNext

SpecFileActions == InitFileActions /\ [][NextFileActions]_vars

\* ===================================================================
\* Properties
\* ===================================================================
\* A call of the Wait family (Wait itself, or the Wait inside Run, Output,
\* CombinedOutput) that passed Wait's entry checks has returned.
WaitFamily == {"Wait", "Run", "Output", "CombinedOutput"}
WaitReturned ==
  /\ pc = "idle"
  /\ ret.op \in WaitFamily
  /\ ret.err \in {"nil", "exit", "copy", "reap", "ctx"}

\* C1: over any sequence of operations at most one process is ever created,
\* and once a Start has created the process every later Start returns the
\* misuse error and creates nothing, whether or not Wait came in between.
C1_AtMostOneProcess ==
  /\ [](hist.spawns <= 1)
  /\ [][(Start /\ hist.spawns >= 1)
          => /\ ret' = Ret("Start", "misuse")
             /\ UNCHANGED <<cmdVars, envVars, hist, pc, call>>]_vars

\* A Start rejected after the process was created, reaped by a Wait in between.
C1_Witness ==
  /\ ret = Ret("Start", "misuse")
  /\ hist.spawns = 1 /\ hist.reaps = 1

\* C2: a Wait on a Cmd that no Start has started returns the misuse error,
\* reaps nothing and does not mark the Cmd finished (it changes nothing), so
\* the Cmd can still be started: a Cmd without a process is never finished.
C2_EarlyWaitIsHarmless ==
  /\ [](hist.spawns = 0 => ~finished /\ hist.reaps = 0)
  /\ [][(Wait /\ hist.spawns = 0)
          => /\ ret' = Ret("Wait", "misuse")
             /\ UNCHANGED <<cmdVars, envVars, hist, pc, call>>]_vars

\* A Wait rejected before any Start, on a Cmd that can still be started.
C2_Witness ==
  /\ ret = Ret("Wait", "misuse")
  /\ hist.spawns = 0 /\ ~finished
  /\ StartGuard = "nil"

\* C3: the process is reaped at most once: after a Wait has passed its
\* entry checks every later Wait returns the misuse error and reaps nothing,
\* also when that first Wait returned an error.
C3_ReapedAtMostOnce ==
  /\ [](hist.reaps <= 1)
  /\ [][(Wait /\ finished)
          => /\ ret' = Ret("Wait", "misuse")
             /\ UNCHANGED <<cmdVars, envVars, hist, pc, call>>]_vars

\* A second Wait rejected after the first Wait failed to reap.
C3_Witness ==
  /\ ret = Ret("Wait", "misuse")
  /\ finished /\ hist.spawns = 1 /\ hist.reaps = 0

\* The copy errors recorded in the outcome slots Wait reads.
Recorded == IF variant = "primary" THEN goroutineErr ELSE osCmd.goroutineErr

\* C4: for a child that exits normally with code N and is reaped by the
\* Wait of Run (or by Wait after Start): the call returns no error when
\* N = 0 and no copy task has failed, it returns an ExitError whose
\* ExitCode() is N when N is in 1..255, and ProcessState holds the status.
C4_ExitCodeReported ==
  (/\ WaitReturned /\ ret.op \in {"Wait", "Run"}
   /\ child.state = "reaped" /\ child.prog.kind = "exit")
  => LET N == child.prog.code IN
     /\ (N = 0 /\ CopyErr(Recorded) = "nil") => ret.err = "nil"
     /\ N \in 1..255 => ret.err = "exit" /\ ExitCode(ret.status) = N
     /\ ProcessState.set /\ ExitCode(ProcessState.status) = N

\* Run returned an ExitError with code 255 for a child that called exit(255).
C4_Witness ==
  /\ WaitReturned /\ ret.op = "Run" /\ ret.err = "exit"
  /\ child.state = "reaped" /\ child.prog = [kind |-> "exit", code |-> 255]
  /\ ExitCode(ret.status) = 255

\* C5: when a Wait that reaped the process returns, every copy task
\* registered for the Cmd's streams has finished and recorded its outcome;
\* none is still running and none has yet to begin.
C5_WaitJoinsCopyTasks ==
  (WaitReturned /\ child.state = "reaped")
  => \A i \in DOMAIN gstate : gstate[i] = "done"

\* C6: copy tasks do not wait for one another: while Run waits for a child
\* that copies its stdin to its stdout, with Stdin and Stdout both in
\* arbitrary-stream mode, a copy task or the child can always take a step
\* until the child has ended, so that Run returns.
C6_CopyTasksIndependent ==
  (/\ call = "Run" /\ pc = "reap"
   /\ Stdin.kind = "reader" /\ Stdout.kind = "bufA"
   /\ child.prog.kind = "cat" /\ child.state = "running")
  => ENABLED Background

\* The bytes the caller's reader supplies.
Supplied == [i \in 1..reader.len |-> i]

\* C7: Output on a child that echoes its stdin to its stdout returns
\* exactly the bytes supplied on stdin, in order.
C7_OutputRoundTrip ==
  (/\ WaitReturned /\ ret.op = "Output" /\ ret.err = "nil"
   /\ Stdin.kind = "reader" /\ child.prog.kind = "cat")
  => ret.out = Supplied

\* C8: the precedence of Wait's result, at the moment Wait returns: a failed
\* reap gives the reap error; a reap that reports anything but exit code 0
\* gives an ExitError, also when a copy error is recorded; a copy error is
\* returned only after a reap reporting exit code 0; nil is returned only
\* when the reap succeeded with exit code 0 and no copy error is recorded.
C8_ResultPrecedence ==
  [][(pc # "idle" /\ pc' = "idle")
       => LET reaped == child'.state = "reaped"
              zero == child'.status = ExitedWith(0)
              copy == \E i \in DOMAIN Recorded' : Recorded'[i] # "nil"
          IN /\ ~reaped => ret'.err = "reap"
             /\ (reaped /\ ~zero) => ret'.err = "exit"
             /\ ret'.err = "copy" => (reaped /\ zero /\ copy)
             /\ ret'.err = "nil" => (reaped /\ zero /\ ~copy)]_vars

\* Wait returned an ExitError although a copy error was recorded as well.
C8_Witness ==
  /\ WaitReturned /\ ret.err = "exit"
  /\ child.state = "reaped"
  /\ \E i \in DOMAIN Recorded : Recorded[i] # "nil"

\* What an accessor must leave alone when it refuses.
pipeState == <<streams, pipes, childIOFiles, parentIOPipes>>

\* C9: StdinPipe, StdoutPipe and StderrPipe each return an error, allocate
\* no pipe and change no stream binding when the stream is already bound,
\* when the same accessor has already been called, or when the process has
\* already been created.
C9_AccessorRefuses ==
  /\ [][(StdinPipe /\ (Stdin # Nil \/ stdinPipeUsed \/ hist.spawns >= 1))
          => ret'.op = "StdinPipe" /\ ret'.err # "nil" /\ UNCHANGED pipeState]_vars
  /\ [][(StdoutPipe /\ (Stdout # Nil \/ stdoutPipeUsed \/ hist.spawns >= 1))
          => ret'.op = "StdoutPipe" /\ ret'.err # "nil" /\ UNCHANGED pipeState]_vars
  /\ [][(StderrPipe /\ (Stderr # Nil \/ stderrPipeUsed \/ hist.spawns >= 1))
          => ret'.op = "StderrPipe" /\ ret'.err # "nil" /\ UNCHANGED pipeState]_vars

\* StdoutPipe refused only because the process had been created.
C9_Witness ==
  /\ ret = Ret("StdoutPipe", "misuse")
  /\ hist.spawns = 1 /\ Stdout = Nil /\ ~stdoutPipeUsed

\* C10: in both variants, once Start has succeeded the parent holds no open
\* copy of the child-side end of a pipe made by StdinPipe, StdoutPipe or
\* StderrPipe.
C10_ChildEndsClosed ==
  hist.spawns >= 1
  => /\ Stdin.kind = "pr" => ~pipes[Stdin.ref].rPar
     /\ Stdout.kind = "pw" => ~pipes[Stdout.ref].wPar
     /\ Stderr.kind = "pw" => ~pipes[Stderr.ref].wPar

\* A call that starts the Cmd: Start itself, or the Start inside Run, Output
\* and CombinedOutput.
StartFamily == Start \/ Run \/ Output \/ CombinedOutput

\* C11: when Start fails after it has begun allocating (pipe creation, a
\* file action, attribute setup or the creation primitive), then as it
\* returns no process has been created, Process is nil, and both ends of
\* every pipe this Start call opened are closed in the parent.
C11_FailedStartUnwinds ==
  [][(StartFamily /\ ret'.err = "start")
       => /\ hist'.spawns = hist.spawns /\ child' = child
          /\ ~Process'.set
          /\ \A p \in (Len(pipes) + 1)..Len(pipes') :
               ~pipes'[p].rPar /\ ~pipes'[p].wPar]_vars

\* What a Start that creates nothing leaves alone.
startState == <<Process, child, pipes, childIOFiles, parentIOPipes, goroutine,
                gstate, osCmd, hist>>

\* C12: on a Cmd whose construction stored a lookup failure, every Start,
\* and every Run, Output and CombinedOutput that gets to its Start, returns
\* that stored failure, creates no process and allocates no pipe.
C12_LookupFailureSurfaces ==
  [][(/\ lookPathErr
      /\ \/ Start \/ Run
         \/ (Output /\ Stdout = Nil)
         \/ (CombinedOutput /\ Stdout = Nil /\ Stderr = Nil))
       => /\ ret'.err = "lookpath"
          /\ ret'.op \in {"Start", "Run", "Output", "CombinedOutput"}
          /\ UNCHANGED startState
          /\ ~Process'.set /\ pipes' = <<>>]_vars

\* Output returned the stored lookup failure; nothing was created.
C12_Witness ==
  /\ lookPathErr
  /\ ret = Ret("Output", "lookpath")
  /\ Stdout.kind = "outBuf"
  /\ hist.spawns = 0 /\ pipes = <<>> /\ ~Process.set

\* C13: when the context is cancelled after Start succeeded and while the
\* process runs, the watcher triggers the abort action once: the caller's
\* Cancel hook when one is set and no kill, the kill and no hook otherwise,
\* in both variants; and a Wait called after the cancellation returns an
\* error. (A kill counts as triggered also when it is refused because the
\* process has been reaped.)
C13_AbortOnCancel ==
  /\ hist.hooks + hist.kills <= 1
  /\ Cancel => hist.kills = 0
  /\ ~Cancel => hist.hooks = 0
  /\ watch = "fired" => (IF Cancel THEN hist.hooks = 1
                         ELSE hist.kills = 1 \/ child.state = "reaped")
  /\ (WaitReturned /\ ret.op = "Wait") => ret.err # "nil"

\* The bytes a child that made all its writes wrote to descriptor fd.
RECURSIVE WroteTo(_, _)
WroteTo(script, fd) ==
  IF script = <<>> THEN <<>>
  ELSE (IF Head(script).fd = fd THEN <<Head(script).b>> ELSE <<>>)
       \o WroteTo(Tail(script), fd)

\* C14: when Output returns for a child that wrote to its stdout and to its
\* stderr and exited, the bytes returned are exactly those written to
\* stdout, none of them written to stderr; and the returned ExitError's
\* Stderr field is filled, with the bytes written to stderr, exactly when
\* the child ended unsuccessfully and Stderr was nil when Output was called.
C14_OutputSeparatesStreams ==
  (/\ WaitReturned /\ ret.op = "Output"
   /\ child.state = "reaped" /\ child.prog.kind = "emit" /\ Exited(child.status))
  => /\ ret.out = WroteTo(EmitScript, 1)
     /\ ret.captured <=> (~Success(child.status) /\ Stderr.kind = "saver")
     /\ ret.captured => ret.stderr = WroteTo(EmitScript, 2)

\* Stdout and Stderr are one and the same writer that is no file.
SharedWriter == Stdout = Stderr /\ Stdout.kind \in Writers

\* The copy tasks for the child's output streams.
OutputTasks(ts) == {i \in DOMAIN ts : ts[i].stream \in {"stdout", "stderr"}}

\* C15: a Start that succeeds with Stdout and Stderr the same non-file
\* writer creates one pipe and registers one copy task for the two streams
\* (and one more of each only for a Stdin that is a non-file reader), and
\* the child's descriptor 2 is a duplicate of its descriptor 1, the write
\* end of that pipe; once the copy task is done, everything a child wrote to
\* either stream before it exited is in the one sink, in the order written.
C15_SharedWriterOnePipe ==
  /\ [][(StartFamily /\ hist'.spawns = hist.spawns + 1 /\ SharedWriter')
          => LET n == IF Stdin.kind = "reader" THEN 1 ELSE 0 IN
             /\ Len(pipes') = Len(pipes) + 1 + n
             /\ Len(Tasks') = Len(Tasks) + 1 + n
             /\ Cardinality(OutputTasks(Tasks')) = Cardinality(OutputTasks(Tasks)) + 1
             /\ child'.fds[2] = V("pw", Len(pipes'))
             /\ child'.fds[3] = child'.fds[2]]_vars
  /\ [](( /\ SharedWriter /\ child.prog.kind = "emit"
          /\ child.state # "running" /\ Exited(child.status)
          /\ \A i \in OutputTasks(Tasks) : i \in DOMAIN gstate /\ gstate[i] = "done")
        => sinks[Stdout.kind] = <<1, 2>>)

\* CombinedOutput returned both bytes of a child that wrote one to its
\* stdout and then one to its stderr.
C15_Witness ==
  /\ WaitReturned /\ ret.op = "CombinedOutput"
  /\ SharedWriter /\ Len(pipes) = 1
  /\ child.prog.kind = "emit" /\ child.fds[3] = child.fds[2]
  /\ ret.out = <<1, 2>>

\* The process runs cat with the StdinPipe pipe as its standard input and
\* with an output it can always write to, and the caller has closed the
\* handle StdinPipe returned.
StdinHandleClosed ==
  /\ hist.spawns = 1 /\ child.prog.kind = "cat"
  /\ Stdin.kind = "pr" /\ ~pipes[Stdin.ref].wPar
  /\ Stdout.kind \in {"nil", "file"}

\* C16: after Start with a StdinPipe, once the caller has closed the handle
\* (having written or not), nobody holds the pipe's write end, a child that
\* reads until end-of-input sees end-of-input, and a Wait that is called
\* returns, without error unless the reap itself fails.
C16_ClosedStdinPipeEndsChild ==
  /\ [](StdinHandleClosed => ~pipes[Stdin.ref].wChild)
  /\ (StdinHandleClosed ~> child.eof)
  /\ ((StdinHandleClosed /\ pc = "reap")
        ~> (pc = "idle" /\ ret.op = "Wait" /\ ret.err \in {"nil", "reap"}))
  /\ []((StdinHandleClosed /\ WaitReturned /\ child.state = "reaped")
          => ret.err = "nil")

\* Wait returned nil for a cat whose StdinPipe handle the caller closed
\* after writing to it.
C16_Witness ==
  /\ StdinHandleClosed /\ reader.data # <<>>
  /\ child.eof /\ child.state = "reaped"
  /\ WaitReturned /\ ret.op = "Wait" /\ ret.err = "nil"

\* LookPath has returned, for a name without / with a separator.
Looked == lp.given /\ lp.op = "LookPath"
\* The candidate of PATH entry i: the entry (the current directory for an
\* empty one) joined with the name.
Candidate(i) == Join(IF lp.PATH[i] = EmptyString THEN P(FALSE, <<".">>) ELSE lp.PATH[i],
                     lp.file)
\* The entries whose candidate exists, is no directory and has an execute bit.
Matching == {i \in 1..Len(lp.PATH) : Stat(lp.fs, Candidate(i)) \in {"regx", "fifox"}}
First(S) == CHOOSE i \in S : \A j \in S : i <= j

\* C17: for a name without separator LookPath goes through the PATH entries
\* in order; the first entry whose candidate exists, is no directory and has
\* an execute bit decides the result and no later entry is looked at; and
\* LookPath fails with the not-found error naming the file exactly when no
\* entry has such a candidate.
C17_FirstMatchWins ==
  (Looked /\ ~ContainsSlash(lp.file))
  => /\ Matching # {}
          => /\ lp.res.path = Candidate(First(Matching))
             /\ lp.res.scanned = First(Matching)
             /\ lp.res.err \in {"nil", "dot"}
     /\ Matching = {}
          => lp.res = Found(EmptyString, lp.file, "notfound", Len(lp.PATH))

\* Two entries match with different candidates, and the first one decided.
C17_Witness ==
  /\ Looked /\ ~ContainsSlash(lp.file)
  /\ Matching = {1, 2} /\ Candidate(1) # Candidate(2)
  /\ lp.res.path = Candidate(1) /\ lp.res.scanned = 1

\* C18: for a name without separator LookPath returns a nil error only
\* together with an absolute path: when the first matching candidate is not
\* absolute the result carries ErrDot.
C18_NilOnlyWithAbsolute ==
  (Looked /\ ~ContainsSlash(lp.file))
  => /\ lp.res.err = "nil" => IsAbs(lp.res.path)
     /\ (Matching # {} /\ ~IsAbs(Candidate(First(Matching)))) => lp.res.err = "dot"

\* C19: for a name with a separator LookPath looks at no PATH entry; it
\* returns the name as given and no error when the file exists, is no
\* directory and has an execute bit, and otherwise the empty path and an
\* error naming the file and carrying the error of the check.
C19_SlashNameTriedDirectly ==
  (Looked /\ ContainsSlash(lp.file))
  => /\ lp.res.scanned = 0
     /\ IF Stat(lp.fs, lp.file) \in {"regx", "fifox"}
        THEN lp.res.path = lp.file /\ lp.res.err = "nil"
        ELSE /\ lp.res.path = EmptyString /\ lp.res.name = lp.file
             /\ lp.res.err = (IF Stat(lp.fs, lp.file) = "none" THEN "stat" ELSE "perm")

\* "./prog" was returned as given although PATH holds a matching entry.
C19_Witness ==
  /\ Looked /\ lp.file = P(FALSE, <<".", "prog">>)
  /\ lp.res.path = lp.file /\ lp.res.err = "nil"
  /\ Matching # {}

\* The suffix buffer read in write order: from the ring offset to the end,
\* then from the start to the offset.
SuffixInOrder(w) ==
  SubSeq(w.suffix, w.suffixOff + 1, Len(w.suffix)) \o SubSeq(w.suffix, 1, w.suffixOff)

\* C20: after any Write calls totalling T bytes on a capture of capacity
\* N >= 1, however the bytes are split, the prefix is the first min(T, N)
\* bytes written, the suffix read in write order is the last
\* min(max(T - N, 0), N) bytes written, and neither holds more than N bytes.
C20_PrefixAndSuffixRetained ==
  psv.given
  => LET T == Len(psv.written)
         N == psv.N
         k == min(IF T - N > 0 THEN T - N ELSE 0, N)
     IN /\ psv.prefix = SubSeq(psv.written, 1, min(T, N))
        /\ SuffixInOrder(psv) = SubSeq(psv.written, T - k + 1, T)
        /\ Len(psv.prefix) <= N /\ Len(psv.suffix) <= N

\* More than 2N bytes were written in several calls, one of them longer
\* than N, and the ring has wrapped to a non-zero offset.
C20_Witness ==
  /\ psv.given /\ psv.N = 2
  /\ Len(psv.written) > 2 * psv.N /\ Len(psv.chunks) >= 3
  /\ \E i \in DOMAIN psv.chunks : psv.chunks[i] > psv.N
  /\ psv.suffixOff # 0
  /\ SuffixInOrder(psv) = SubSeq(psv.written, Len(psv.written) - 1, Len(psv.written))

\* C21: after any Write calls totalling T bytes on a capture of capacity N,
\* the omitted-byte count is max(T - 2N, 0), so that prefix length + omitted
\* count + suffix length = T, however the bytes were split across the calls.
C21_OmittedCount ==
  psv.given
  => LET T == Len(psv.written)
         N == psv.N
     IN /\ psv.skipped = (IF T - 2 * N > 0 THEN T - 2 * N ELSE 0)
        /\ Len(psv.prefix) + psv.skipped + Len(psv.suffix) = T

\* C22: Bytes yields the prefix, then the marker carrying the omitted count,
\* then the suffix in write order; the marker is there exactly when a byte
\* was dropped (T > 2N), and for T <= 2N the rendering is all T bytes written,
\* in write order.
C22_Rendering ==
  (psv.given /\ psv.rendered)
  => LET T == Len(psv.written)
         N == psv.N
     IN psv.out = (IF T > 2 * N
                   THEN SubSeq(psv.written, 1, N)
                          \o OmittingHead \o itoa(T - 2 * N) \o OmittingTail
                          \o SubSeq(psv.written, T - N + 1, T)
                   ELSE psv.written)

\* A step in which Process.Wait reaps the process: the Wait of the darwin
\* variant calls it, and so may the caller.
ProcessWaitReaps ==
  /\ hist'.reaps = hist.reaps + 1
  /\ variant = "primary" \/ ret'.op = "Process.Wait"

\* C23: the handle's Pid is positive from a successful Start until the
\* process is reaped or the handle released, and it is non-positive in every
\* state after Process.Wait has reaped the process or Release was called.
C23_PidSentinel ==
  [][/\ (~Process.set /\ Process'.set) => Process'.Pid > 0
     /\ (Process.set /\ Process.Pid > 0 /\ ~Release /\ ~ProcessWaitReaps)
          => Process'.Pid > 0
     /\ Release => Process'.Pid <= 0
     /\ ProcessWaitReaps => Process'.Pid <= 0
     /\ (Process.set /\ Process.Pid <= 0) => Process'.Pid <= 0]_vars

\* C24: Signal and Kill return the invalid-handle error and deliver no
\* signal whenever the Pid is non-positive or the signal is not a platform
\* signal; after Release every later Signal, Kill and Process.Wait on the
\* handle fails, and none of them signals or reaps a process.
C24_InvalidHandleRefused ==
  [][/\ \A sig \in Signals :
          (ProcessSignal(sig) /\ (Process.Pid <= 0 \/ ~sig.platform))
            => (ret'.err = "invalid" /\ child' = child /\ pipes' = pipes)
     /\ (ProcessKill /\ Process.Pid <= 0)
          => (ret'.err = "invalid" /\ child' = child /\ pipes' = pipes)
     /\ (ProcessWait /\ Process.Pid <= 0)
          => (ret'.err = "invalid" /\ child' = child /\ hist'.reaps = hist.reaps)
     /\ (Process.set /\ Process.Pid <= 0) => Process'.Pid <= 0]_vars

\* The handle was released while the process was running; a Kill was then
\* refused and the process is still running.
C24_Witness ==
  /\ Process.set /\ Process.Pid = -1
  /\ ret.op = "Kill" /\ ret.err = "invalid"
  /\ child.state = "running"

C26_ArgvIsArgs ==
  (child.state # "none" /\ launch.Args # <<>>) => child.argv = launch.Args

\* C30: when the Cmd's Args is empty, Start uses the one-element vector
\* {Path} as the argument vector, in both variants, and returns normally.
C30_EmptyArgsUsePath ==
  launch.Args = <<>>
  => /\ pc # "panic"
     /\ child.state # "none" => child.argv = <<launch.Path>>

\* The parent holds the pipe end f open.
EndOpen(ps, f) == IF f.kind = "pr" THEN ps[f.ref].rPar ELSE ps[f.ref].wPar

\* C27: within one Wait call the process is reaped first, then every
\* parent-facing pipe end the Cmd retained is closed, and only then are the
\* copy outcomes collected; no retained end is closed before the reap has
\* returned.
C27_WaitOrder ==
  [][/\ (parentIOPipes # <<>> /\ parentIOPipes' # parentIOPipes /\ Process.set)
          => (pc = "reap" /\ child'.state = "reaped")
     /\ (pc = "reap" /\ pc' = "collect" /\ child'.state = "reaped")
          => /\ parentIOPipes' = <<>>
             /\ \A i \in DOMAIN parentIOPipes : ~EndOpen(pipes', parentIOPipes[i])
     /\ (pc = "collect" /\ pc' = "idle" /\ child.state = "reaped")
          => parentIOPipes = <<>>]_vars

\* The step leaves the stream bindings as they are and creates no process.
NothingStarted ==
  /\ <<Stdin, Stdout, Stderr>>' = <<Stdin, Stdout, Stderr>>
  /\ Process' = Process /\ child' = child /\ pipes' = pipes
  /\ hist'.spawns = hist.spawns

\* C28: Output returns an error when Stdout is already set, and
\* CombinedOutput returns an error when Stdout or Stderr is already set; no
\* process is created then and the stream bindings stay as the caller set
\* them.
C28_AlreadySetRefused ==
  [][/\ (Output /\ Stdout # Nil)
          => (ret'.op = "Output" /\ ret'.err = "misuse" /\ NothingStarted)
     /\ (CombinedOutput /\ (Stdout # Nil \/ Stderr # Nil))
          => (ret'.op = "CombinedOutput" /\ ret'.err = "misuse" /\ NothingStarted)]_vars

\* CombinedOutput was refused on a Cmd whose Stderr alone was set, and
\* nothing was started.
C28_Witness ==
  /\ ret.op = "CombinedOutput" /\ ret.err = "misuse"
  /\ Stdout = Nil /\ Stderr # Nil
  /\ ~Process.set /\ hist.spawns = 0 /\ child.state = "none"

\* What a Start leaves alone when it creates nothing.
NothingCreated ==
  /\ hist'.spawns = hist.spawns /\ child' = child
  /\ pipes' = pipes
  /\ goroutine' = goroutine /\ gstate' = gstate
  /\ ~Process'.set

\* C29 as stated: Start on a Cmd whose context is already cancelled returns
\* the context's error, creates no process, allocates no pipe, registers no
\* copy task and leaves Process nil.
C29_AsStated ==
  [][(Start /\ ctx = "done") => (ret' = Ret("Start", "ctx") /\ NothingCreated)]_vars

\* C29, amended: Start on a Cmd that has not been started and whose context
\* is already cancelled creates no process, allocates no pipe, registers no
\* copy task and leaves Process nil; it returns the context's error unless
\* Command stored a lookup failure, which it returns instead.
C29_CancelledBeforeStart ==
  [][(Start /\ ctx = "done" /\ ~Process.set)
       => /\ ret' = Ret("Start", IF lookPathErr THEN "lookpath" ELSE "ctx")
          /\ NothingCreated]_vars

\* A Start on a Cmd with a bound writer and no lookup failure has returned
\* the context's error, and nothing exists.
C29_Witness ==
  /\ ctx = "done" /\ ~lookPathErr /\ Stdout.kind = "bufA"
  /\ ret = Ret("Start", "ctx")
  /\ ~Process.set /\ pipes = <<>> /\ goroutine = <<>> /\ hist.spawns = 0

\* ---------------------------------------------------------------- C31
\* What the child is to find at a descriptor bound to v: the null device,
\* or the file the parent has open under v's number.
Target(v) == IF v = Nil THEN V("null", 0) ELSE Open(v.ref)

\* C31: once posix_spawn has carried out the whole list, descriptors 0, 1
\* and 2 of the child refer to what Stdin, Stdout and Stderr were bound to,
\* and descriptor 3+i to ExtraFiles[i] for every non-nil entry i.
C31_TargetsReached ==
  (fa.given /\ fa.built /\ fa.todo = <<>>) =>
     /\ fa.table[0] = Target(fa.Stdin)
     /\ fa.table[1] = Target(fa.Stdout)
     /\ fa.table[2] = Target(fa.Stderr)
     /\ \A k \in 1..Len(fa.ExtraFiles) :
          fa.ExtraFiles[k] # Nil => fa.table[2 + k] = Target(fa.ExtraFiles[k])

\* ---------------------------------------------------------------- C32
\* C32: in the darwin variant, with c.Dir set on a platform without the
\* change-directory file action, no step creates a process and every Start
\* returns an error; and in either variant a created process runs in the
\* directory that was asked for.
C32_NoProcessOutsideDir ==
  /\ [](child.state # "none" => child.dir = launch.Dir)
  /\ [][(variant = "primary" /\ launch.Dir # "" /\ ~hasChdir) =>
          /\ hist'.spawns = hist.spawns /\ child' = child /\ Process' = Process
          /\ Start => (ret'.op = "Start" /\ ret'.err # "nil")]_vars

\* Start has refused the directory, after its stream setups succeeded.
C32_Witness ==
  /\ variant = "primary" /\ launch.Dir # "" /\ ~hasChdir
  /\ ret.op = "Start" /\ ret.err = "dir"
  /\ hist.spawns = 0 /\ ~Process.set

\* ---------------------------------------------------------------- C36
\* The values the vector holds for key k, in order.
ValuesOf(env, k) ==
  LET es == SelectSeq(env, LAMBDA e : e.k = k) IN [i \in 1..Len(es) |-> es[i].v]

\* C36: the environment vector of a created process holds, for every key of
\* c.Env, only the value of the last entry of c.Env with that key; with
\* c.Env nil it is the parent's environment.
C36_LastValueWins ==
  child.state # "none" =>
    IF ~launch.Env.set THEN child.env = Environ
    ELSE /\ \A i \in 1..Len(child.env) :
              \E j \in 1..Len(launch.Env.list) : child.env[i] = launch.Env.list[j]
         /\ \A j \in 1..Len(launch.Env.list) :
              LET k == launch.Env.list[j].k
                  vs == ValuesOf(launch.Env.list, k)
              IN ValuesOf(child.env, k) = <<vs[Len(vs)]>>

\* ---------------------------------------------------------------- C33
\* The stream is neither unset nor an open file: Start makes a pipe for it.
Arbitrary(v) == v # Nil /\ ~IsFile(v)

\* The streams in arbitrary-stream mode, Stdout and Stderr counted once
\* when they are the same writer.
ArbitraryCount(sin, sout, serr) ==
  (IF Arbitrary(sin) THEN 1 ELSE 0) + (IF Arbitrary(sout) THEN 1 ELSE 0)
    + (IF Arbitrary(serr) /\ serr # sout THEN 1 ELSE 0)

\* What descriptor fd of the child refers to agrees with the mode of v.
ModeApplied(v, d) ==
  IF v = Nil THEN d = V("null", 0)
  ELSE IF IsFile(v) THEN d = v
  ELSE d.kind \in {"pr", "pw"}

\* C33: a Start that succeeds gives each standard stream the descriptor of
\* its mode, and the copy tasks it starts are as many as the streams in
\* arbitrary-stream mode (a shared Stdout/Stderr writer counted once),
\* between 0 and 3, whatever happened to the Cmd before.
C33_OneTaskPerArbitraryStream ==
  [][(StartFamily /\ hist'.spawns = hist.spawns + 1) =>
       /\ ModeApplied(Stdin', child'.fds[1])
       /\ ModeApplied(Stdout', child'.fds[2])
       /\ ModeApplied(Stderr', child'.fds[3])
       /\ Len(gstate') = ArbitraryCount(Stdin', Stdout', Stderr')
       /\ Len(gstate') \in 0..3]_vars

\* ---------------------------------------------------------------- C34
\* The binding of the stream a copy task serves.
BindingOf(stream) ==
  IF stream = "stdin" THEN Stdin ELSE IF stream = "stdout" THEN Stdout ELSE Stderr

\* The parent-facing ends the pipe accessors have handed to the caller.
HandedEnds ==
  (IF Stdin.kind = "pr" THEN {V("pw", Stdin.ref)} ELSE {})
    \cup (IF Stdout.kind = "pw" THEN {V("pr", Stdout.ref)} ELSE {})
    \cup (IF Stderr.kind = "pw" THEN {V("pr", Stderr.ref)} ELSE {})

\* C34: every registered copy task serves a stream the caller bound to a
\* reader or writer that is no file, none serves a stream configured through
\* a pipe accessor; the end an accessor handed out is retained by the Cmd
\* until Wait has reaped, and is closed once Wait has returned after a reap.
C34_AccessorStreamsUncopied ==
  /\ \A i \in DOMAIN Tasks : Arbitrary(BindingOf(Tasks[i].stream))
  /\ Len(gstate) <= Len(Tasks)
  /\ \A e \in HandedEnds :
       /\ child.state # "reaped" => \E i \in DOMAIN parentIOPipes : parentIOPipes[i] = e
       /\ (WaitReturned /\ child.state = "reaped") => ~EndOpen(pipes, e)

\* ---------------------------------------------------------------- C35
\* C35: once Wait has returned for a started Cmd, with whatever result, the
\* parent holds no end of any pipe the Cmd created open.
C35_NoPipeEndLeftOpen ==
  WaitReturned => \A p \in DOMAIN pipes : ~pipes[p].rPar /\ ~pipes[p].wPar

\* ---------------------------------------------------------------- C37
\* C37: Start never issues a close on a descriptor number it has closed
\* already.
C37_ClosedOnce == hist.reclosed = 0

\* ---------------------------------------------------------------- C38
\* The thread has passed the checks of Wait: it is on its way to the reap,
\* or it has returned with something other than the misuse error.
FirstPassed ==
  \/ pc \in {"reap", "collect"}
  \/ (ret.op = "Wait" /\ ret.err # "misuse")
SecondPassed ==
  \/ other.pc \in {"checked", "reap", "collect"}
  \/ other.err \notin {"none", "misuse"}

\* C38: of two threads that call Wait on the same started Cmd, at most one
\* gets past the finished check; the other returns the misuse error.
C38_OneWaiterPasses == ~(FirstPassed /\ SecondPassed)

\* ---------------------------------------------------------------- C39
\* C39: the cancellation watcher sends its kill signal only to a process
\* that has not been reaped: a watcher that acts after the reap, or while
\* Wait is reaping, signals the process while it is still unreaped or
\* sends nothing.
C39_NoSignalAfterReap ==
  [][hist'.kills # hist.kills => child.state \in {"running", "zombie"}]_vars

====
